---------------------------- MODULE Spec2Model ----------------------------
(***************************************************************************)
(* A model of the TravanaSpot extension's review pipeline:                 *)
(*                                                                         *)
(*   - the content script's Collector (collectReviewsWithScrolling) and    *)
(*     Record Extractor (extractReviewsFromDOM), src/unnamed/part_000;     *)
(*   - the TravanaSpotBrowserAI object (analyzeReviews, askQuestion,       *)
(*     extractStructuredData, mergeKeywordAnalysis, createOptimizedChunks),*)
(*     src/browser-ai-integration.js.                                      *)
(*                                                                         *)
(* Strings of the program are TLA+ strings; "" stands for a missing        *)
(* (undefined) or empty string, both falsy in JavaScript.                  *)
(***************************************************************************)
EXTENDS Integers, Sequences, FiniteSets, TLC

(***************************************************************************)
(* Program constants of the Collector and the Record Extractor.            *)
(***************************************************************************)
maxAttempts == 30
TargetReviews == 100
NoProgressBudget == 10
EndProbeMinStalls == 5
FinalPushLow == 50
FinalPushHigh == 95
FinalPushAttempts == 8
FinalTrackAttempt == 3
FinalStopAttempt == 6
ExtractCap == 100
MinTextAlone == 20

(***************************************************************************)
(* Bounds of the modelled document: how many review elements the page can  *)
(* ever render, how many a scroll loads at once, how many are rendered     *)
(* when the collection starts.                                             *)
(***************************************************************************)
MaxDoc == 192
BigStep == 60
InitLoaded == 12

VARIABLES
    \* ---- content script: one run of collectReviewsWithScrolling ----
    cpc,                      \* position of the run
    allReviews,               \* the accumulated set (insertion ordered)
    attempts,                 \* main-loop iterations started
    consecutiveNoNewReviews,  \* the no-progress counter
    currentReviews,           \* result of the latest extraction pass
    finalAttempt,             \* index of the final-push pass
    collected,                \* the value the run returned
    \* ---- content script: one call of extractReviewsAsync ----
    xpc,                      \* "off", "start", "collecting" or "resolved"
    cachedReviews,            \* the review list it delivered
    \* ---- one review element's rating, as extractReviewsFromDOM derives it ----
    rpc,                      \* "off", "input" or "rated"
    ratingCue,                \* N of the first "Rating, N stars" span, or NoCue
    starSvgs,                 \* number of star glyph elements
    textLength,               \* review.text.length (0: no text)
    rating,                   \* review.rating: absent, or its value
    \* ---- the live document ----
    domLo, domHi,             \* elements domLo+1 .. domHi are rendered
    docMode,                  \* "primary": elements carry data-review-id
    virtualized,              \* the list drops what scrolled out of view
    expansionPending,         \* an expansion was triggered and no pass has run since
    \* ---- one call of mergeKeywordAnalysis ----
    mpc,                      \* "off", "input", "returned" or "threw"
    chunkKeywordArrays,       \* its argument
    mergeResult,              \* the array it returned
    \* ---- one call of createOptimizedChunks ----
    kpc,                      \* "off", "input" or "chunked"
    reviewTexts,              \* its argument reviews
    chunkOverlap,             \* its argument chunkOverlap
    chunks,                   \* the chunks it returned
    \* ---- the TravanaSpotBrowserAI object ----
    isAnalyzing,
    reviewCache,              \* NoCache (null) or the cached review list
    languageModelSession,     \* "null" or "live"
    summarizerSession,        \* "null" or "live"
    \* ---- the browser's sessions ----
    lmCreator,                \* the call that created the session languageModelSession holds
    sumCreator,               \* the call that created the session summarizerSession holds
    undestroyed,              \* per running call: sessions it created that no handle holds
                              \* any more and that were never destroyed
    \* ---- one call of analyzeReviews ----
    apc,                      \* position of the call
    aReviews,                 \* its argument reviews
    aPath,                    \* "summarizer" or "promptOnly"
    aResult,                  \* what it returned or threw
    sChunks,                  \* chunks.length of the summarization
    sIndex,                   \* chunks summarized or failed so far
    chunkSummaries,           \* chunkSummaries.length
    \* ---- its call of extractStructuredData ----
    eBatches,                 \* chunks.length of the extraction
    eIndex,                   \* batches processed so far
    chunkResults,             \* the keyword_analysis of the results pushed
    eOutcomes,                \* what each batch came to, in order
    eStatus,                  \* "none", "running", "merged", "fallback", "fallbackThrew"
    structuredData,           \* what it returned
    \* ---- one call of askQuestion ----
    qpc,                      \* position of the call
    qReviews,                 \* its argument reviews
    totalReviews,
    startIndex,
    answerFound,
    finalAnswer,
    qReplies,                 \* the replies received, with the cache they were asked about
    qResult                   \* what it returned

VARIABLES
    \* ---- the merge of guest_insights in extractStructuredData ----
    ipc,                      \* "off", "input" or "merged"
    insightBatches,           \* one list per processed batch: guest_insights[key]
    insightKey,               \* the category that is merged
    mergedInsight             \* mergedInsights[key]

insightVars == <<ipc, insightBatches, insightKey, mergedInsight>>

VARIABLES
    \* ---- content script: the extract_reviews listener and urlObserver ----
    currentUrl,               \* the page shown, as the observer tracks it
    requests                  \* the extract_reviews requests received so far

listenerVars == <<currentUrl, requests>>

VARIABLES
    \* ---- recursiveSummarize ----
    spc,                      \* position in the call at the current level
    depth,
    summaries,                \* the texts of the level, by length
    context,                  \* the length of the context string
    levelChunks,              \* chunks of the level
    levelIndex,               \* i of the for loop
    nextLevelSummaries,
    apiCalls,                 \* calls of summarizerSession.summarize so far
    finalSummary              \* what the outermost call returns

recursiveVars == <<spc, depth, summaries, context, levelChunks, levelIndex,
                   nextLevelSummaries, apiCalls, finalSummary>>

VARIABLES
    \* ---- the sentiment percentages ----
    ppc,                      \* "off", "counted" or "computed"
    sentimentOf,              \* the function that computes them
    positiveReviews,          \* positiveCount in fallbackReviewAnalysis
    neutralReviews,
    negativeReviews,          \* negativeCount in fallbackReviewAnalysis
    percentages

percentVars == <<ppc, sentimentOf, positiveReviews, neutralReviews,
                 negativeReviews, percentages>>

collectVars == <<cpc, allReviews, attempts, consecutiveNoNewReviews,
                 currentReviews, finalAttempt, collected>>
asyncVars == <<xpc, cachedReviews>>
ratingVars == <<rpc, ratingCue, starSvgs, textLength, rating>>
docVars == <<domLo, domHi, docMode, virtualized, expansionPending>>
mergeVars == <<mpc, chunkKeywordArrays, mergeResult>>
chunkVars == <<kpc, reviewTexts, chunkOverlap, chunks>>
objVars == <<isAnalyzing, reviewCache, languageModelSession, summarizerSession>>
analyzeVars == <<apc, aReviews, aPath, aResult>>
summarizeVars == <<sChunks, sIndex, chunkSummaries>>
extractVars == <<eBatches, eIndex, chunkResults, eOutcomes, eStatus, structuredData>>
askVars == <<qpc, qReviews, totalReviews, startIndex, answerFound, finalAnswer,
             qReplies, qResult>>
sessionVars == <<lmCreator, sumCreator, undestroyed>>
aiVars == <<objVars, sessionVars, analyzeVars, summarizeVars, extractVars, askVars>>
vars == <<collectVars, asyncVars, ratingVars, docVars, mergeVars, chunkVars, aiVars, insightVars, listenerVars, recursiveVars, percentVars>>

\* What a step of the content script, of the merge, of the chunker and of the
\* AI object leaves alone.
outsideCollector == <<asyncVars, ratingVars, mergeVars, chunkVars, aiVars, insightVars, listenerVars, recursiveVars, percentVars>>
outsideMerge == <<collectVars, asyncVars, ratingVars, docVars, chunkVars, aiVars, insightVars, listenerVars, recursiveVars, percentVars>>
outsideChunker == <<collectVars, asyncVars, ratingVars, docVars, mergeVars, aiVars, insightVars, listenerVars, recursiveVars, percentVars>>
outsideAI == <<collectVars, asyncVars, ratingVars, docVars, mergeVars, chunkVars, insightVars, listenerVars, recursiveVars, percentVars>>
outsideRating == <<collectVars, asyncVars, docVars, mergeVars, chunkVars, aiVars, insightVars, listenerVars, recursiveVars, percentVars>>
outsideInsight == <<collectVars, asyncVars, ratingVars, docVars, mergeVars, chunkVars, aiVars, listenerVars, recursiveVars, percentVars>>
outsideListener == <<collectVars, xpc, ratingVars, docVars, mergeVars, chunkVars, aiVars, insightVars, recursiveVars, percentVars>>
outsideRecursive == <<collectVars, asyncVars, ratingVars, docVars, mergeVars, chunkVars, aiVars, insightVars, listenerVars, percentVars>>
outsidePercent == <<collectVars, asyncVars, ratingVars, docVars, mergeVars, chunkVars, aiVars, insightVars, listenerVars, recursiveVars>>

Min(a, b) == IF a < b THEN a ELSE b
Max(a, b) == IF a > b THEN a ELSE b
Range(s) == {s[i] : i \in 1..Len(s)}

(***************************************************************************)
(* The document.  Element k of the listing shows review Uniq(k): every     *)
(* third element repeats the one before it (the page renders some reviews  *)
(* twice).  Some reviews lack a name element, some lack a text element,    *)
(* some have a short text.                                                 *)
(***************************************************************************)
Uniq(k) == k - (k \div 3)

ElemName(k) ==
    LET u == Uniq(k)
    IN IF u % 10 = 9 \/ u % 20 = 14 THEN "" ELSE "guest " \o ToString(u)

ElemText(k) ==
    LET u == Uniq(k)
    IN IF u % 10 = 0 THEN ""
       ELSE IF u % 10 = 4 THEN "ok " \o ToString(u)
       ELSE "a review text long enough " \o ToString(u)

(***************************************************************************)
(* extractReviewsFromDOM: one pass over the rendered elements, in document *)
(* order.  Primary mode keeps a record with name and text, or with a text  *)
(* longer than 20 characters alone (named 'Anonymous'); fallback mode      *)
(* keeps a record with a name or a text.  A pass stops adding at 100.      *)
(* ElemReview is the record the forEach body makes of element k.           *)
(***************************************************************************)
Doc == [k \in 1..MaxDoc |-> [name |-> ElemName(k), text |-> ElemText(k)]]

ElemReview(k, mode) ==
    LET n == Doc[k].name
        t == Doc[k].text
    IN IF mode = "primary" /\ n = "" /\ t # "" /\ Len(t) > MinTextAlone
       THEN [name |-> "Anonymous", text |-> t]
       ELSE [name |-> n, text |-> t]

\* Whether the pass pushes the record made of an element.
Kept(r, mode) ==
    IF mode = "primary" THEN r.name # "" /\ r.text # ""
                        ELSE r.name # "" \/ r.text # ""

ExtractFrom(lo, hi, mode) ==
    LET made == [i \in 1..Max(0, hi - lo) |-> ElemReview(lo + i, mode)]
        pushed == SelectSeq(made, LAMBDA r : Kept(r, mode))
    IN SubSeq(pushed, 1, Min(ExtractCap, Len(pushed)))

extractReviewsFromDOM == ExtractFrom(domLo, domHi, docMode)

(***************************************************************************)
(* The duplicate test and the merge of one pass into the accumulated set:  *)
(* a review of the pass is pushed when it has a name and a text and no     *)
(* record with the same name and text is in allReviews, which by then      *)
(* holds the reviews pushed earlier in the same pass.  cap is the size at  *)
(* which the final push stops adding (0: the main loop, no cap).           *)
(***************************************************************************)
SameReview(a, b) == a.name = b.name /\ a.text = b.text

isDuplicate(all, review) ==
    \E i \in 1..Len(all) : SameReview(all[i], review)

\* A merge that tests duplicates only against the set as it was before the pass.
PushableStale(all, pass, i) ==
    /\ ~isDuplicate(all, pass[i])
    /\ pass[i].name # ""
    /\ pass[i].text # ""

Pushable(all, pass, i) ==
    /\ ~isDuplicate(all, pass[i])
    /\ ~\E j \in 1..(i - 1) : SameReview(pass[j], pass[i])
    /\ pass[i].name # ""
    /\ pass[i].text # ""

\* A merge that rebuilds the set from the records of the latest pass alone.
MergeNewRebuilt(all, pass, cap) ==
    LET idx == SelectSeq([i \in 1..Len(pass) |-> i],
                         LAMBDA i : Pushable(<<>>, pass, i))
    IN CHOOSE result \in {[k \in 1..Len(added) |-> pass[added[k]]] :
                              added \in {idx}} : TRUE

MergeNew(all, pass, cap) ==
    LET idx == SelectSeq([i \in 1..Len(pass) |-> i],
                         LAMBDA i : Pushable(all, pass, i))
        room == IF cap = 0 THEN Len(idx) ELSE Min(Len(idx), Max(0, cap - Len(all)))
    IN CHOOSE result \in {all \o [k \in 1..Len(added) |-> pass[added[k]]] :
                              added \in {SubSeq(idx, 1, room)}} : TRUE

(***************************************************************************)
(* The main loop's condition.                                              *)
(***************************************************************************)
\* The loop without its attempt budget.
LoopConditionNoBudget ==
    /\ Len(allReviews) < TargetReviews
    /\ consecutiveNoNewReviews < NoProgressBudget

LoopCondition ==
    /\ Len(allReviews) < TargetReviews
    /\ attempts < maxAttempts
    /\ consecutiveNoNewReviews < NoProgressBudget

\* A band without its lower threshold.
InFinalPushBandNoFloor(n) == n < FinalPushHigh

InFinalPushBand(n) == n >= FinalPushLow /\ n < FinalPushHigh

(***************************************************************************)
(* What a scroll (or a click on "Show more") can do to the document: load  *)
(* nothing or a page of further elements.                                  *)
(***************************************************************************)
LoadSteps == {0, BigStep}

\* The kinds of page modelled: with data-review-id elements (primary), as a
\* growing list or as a virtualized one, and without them (fallback).
DocKinds == {<<"primary", FALSE>>, <<"primary", TRUE>>, <<"fallback", FALSE>>}

DocChange ==
    \E step \in LoadSteps :
        /\ domHi' = Min(MaxDoc, domHi + step)
        /\ domLo' = IF virtualized /\ domHi' > domHi THEN domHi ELSE domLo
        /\ expansionPending' = TRUE
        /\ UNCHANGED <<docMode, virtualized>>

\* The content script is not running.
CollectOff ==
    /\ cpc = "off"
    /\ allReviews = <<>>
    /\ attempts = 0
    /\ consecutiveNoNewReviews = 0
    /\ currentReviews = <<>>
    /\ finalAttempt = 0
    /\ collected = <<>>
    /\ xpc = "off"
    /\ cachedReviews = <<>>
    /\ domLo = 0
    /\ domHi = 0
    /\ docMode = "primary"
    /\ virtualized = FALSE
    /\ expansionPending = FALSE

CollectInit ==
    /\ cpc = "loop"
    /\ allReviews = <<>>
    /\ attempts = 0
    /\ consecutiveNoNewReviews = 0
    /\ currentReviews = <<>>
    /\ finalAttempt = 0
    /\ collected = <<>>
    /\ xpc = "off"
    /\ cachedReviews = <<>>
    /\ domLo = 0
    /\ domHi \in {0, InitLoaded}
    /\ \E kind \in DocKinds : docMode = kind[1] /\ virtualized = kind[2]
    /\ expansionPending = FALSE

(***************************************************************************)
(* One iteration of the main loop, from the loop test to the first await   *)
(* of the scrolling strategies: extract, merge, decide.                    *)
(***************************************************************************)
\* A probe for end-of-reviews signals on any iteration without a new record.
EndProbeOnAnyStall(stalled, stalls) == stalled

\* Whether the iteration probes the document for end-of-reviews signals.
EndProbe(stalled, stalls) == stalled /\ stalls >= EndProbeMinStalls

\* A counter that an iteration with new records leaves as it is.
NextStallsNoReset(stalled, count) == IF stalled THEN count + 1 ELSE count

\* consecutiveNoNewReviews++ without a new record, = 0 with one.
NextStalls(stalled, count) == IF stalled THEN count + 1 ELSE 0

MainIteration ==
    /\ cpc = "loop"
    /\ LoopCondition
    /\ currentReviews' = extractReviewsFromDOM
    /\ allReviews' = MergeNew(allReviews, currentReviews', 0)
    /\ LET stalled == Len(allReviews') = Len(allReviews)
           stalls == NextStalls(stalled, consecutiveNoNewReviews)
       IN /\ attempts' = attempts + 1
          /\ IF Len(allReviews') >= TargetReviews
             THEN /\ cpc' = "afterLoop"
                  /\ UNCHANGED consecutiveNoNewReviews
             ELSE /\ consecutiveNoNewReviews' = stalls
                  /\ \E endSignal \in BOOLEAN :
                        cpc' = IF EndProbe(stalled, stalls) /\ endSignal
                               THEN "afterLoop" ELSE "scroll"
    /\ expansionPending' = FALSE
    /\ UNCHANGED <<finalAttempt, collected, domLo, domHi, docMode, virtualized>>
    /\ UNCHANGED outsideCollector

(***************************************************************************)
(* The scrolling strategies and the settle waits of one iteration.         *)
(***************************************************************************)
Scroll ==
    /\ cpc = "scroll"
    /\ DocChange
    /\ cpc' = "loop"
    /\ UNCHANGED <<allReviews, attempts, consecutiveNoNewReviews,
                   currentReviews, finalAttempt, collected>>
    /\ UNCHANGED outsideCollector

ExitMainLoop ==
    /\ cpc = "loop"
    /\ ~LoopCondition
    /\ cpc' = "afterLoop"
    /\ UNCHANGED <<allReviews, attempts, consecutiveNoNewReviews,
                   currentReviews, finalAttempt, collected, docVars>>
    /\ UNCHANGED outsideCollector

(***************************************************************************)
(* The final push: entered when the size is in [50, 95).                   *)
(***************************************************************************)
AfterLoop ==
    /\ cpc = "afterLoop"
    /\ IF InFinalPushBand(Len(allReviews))
       THEN /\ DocChange                  \* clicks on "Show more" buttons
            /\ cpc' = "finalTest"
       ELSE /\ cpc' = "closing"
            /\ UNCHANGED docVars
    /\ finalAttempt' = 0
    /\ UNCHANGED <<allReviews, attempts, consecutiveNoNewReviews,
                   currentReviews, collected>>
    /\ UNCHANGED outsideCollector

FinalPushCondition ==
    finalAttempt < FinalPushAttempts /\ Len(allReviews) < FinalPushHigh

FinalScroll ==
    /\ cpc = "finalTest"
    /\ IF FinalPushCondition
       THEN /\ DocChange
            /\ cpc' = "finalExtract"
       ELSE /\ cpc' = "closing"
            /\ UNCHANGED docVars
    /\ UNCHANGED <<allReviews, attempts, consecutiveNoNewReviews,
                   currentReviews, finalAttempt, collected>>
    /\ UNCHANGED outsideCollector

(***************************************************************************)
(* The early stop of the final push compares the size with a value read    *)
(* in the same pass (reviewsBeforePush is assigned just before the test).  *)
(***************************************************************************)
FinalStops(fa, sizeNow) ==
    LET reviewsBeforePush == sizeNow
    IN fa >= FinalTrackAttempt /\ fa # FinalTrackAttempt
       /\ fa = FinalStopAttempt /\ sizeNow = reviewsBeforePush

FinalExtract ==
    /\ cpc = "finalExtract"
    /\ currentReviews' = extractReviewsFromDOM
    /\ allReviews' = MergeNew(allReviews, currentReviews', FinalPushHigh)
    /\ IF FinalStops(finalAttempt, Len(allReviews'))
       THEN cpc' = "closing" /\ UNCHANGED finalAttempt
       ELSE cpc' = "finalTest" /\ finalAttempt' = finalAttempt + 1
    /\ expansionPending' = FALSE
    /\ UNCHANGED <<attempts, consecutiveNoNewReviews, collected, domLo, domHi,
                   docMode, virtualized>>
    /\ UNCHANGED outsideCollector

(***************************************************************************)
(* Closing the modal and returning allReviews.slice(0, 100).               *)
(***************************************************************************)
\* A return of the whole accumulated set.
ReturnValueUncut(all) == all

\* allReviews.slice(0, 100)
ReturnValue(all) == SubSeq(all, 1, Min(TargetReviews, Len(all)))

Return ==
    /\ cpc = "closing"
    /\ collected' = ReturnValue(allReviews)
    /\ cpc' = "done"
    /\ UNCHANGED <<allReviews, attempts, consecutiveNoNewReviews,
                   currentReviews, finalAttempt, docVars>>
    /\ UNCHANGED outsideCollector

CollectNext ==
    \/ MainIteration
    \/ Scroll
    \/ ExitMainLoop
    \/ AfterLoop
    \/ FinalScroll
    \/ FinalExtract
    \/ Return

(***************************************************************************)
(* extractReviewsAsync: with a "Show all reviews" button, or on the        *)
(* reviews page, it runs collectReviewsWithScrolling and delivers what the *)
(* run returns; otherwise it delivers one pass of extractReviewsFromDOM.   *)
(***************************************************************************)
AsyncInit ==
    /\ xpc = "start"
    /\ cachedReviews = <<>>
    /\ cpc = "off"
    /\ allReviews = <<>>
    /\ attempts = 0
    /\ consecutiveNoNewReviews = 0
    /\ currentReviews = <<>>
    /\ finalAttempt = 0
    /\ collected = <<>>
    /\ domLo = 0
    /\ domHi \in {0, InitLoaded, BigStep}
    /\ \E kind \in DocKinds : docMode = kind[1] /\ virtualized = kind[2]
    /\ expansionPending = FALSE

ExtractAsyncStart ==
    /\ xpc = "start"
    /\ \E showAllReviewsButton \in BOOLEAN, onReviewsPage \in BOOLEAN :
          IF showAllReviewsButton \/ onReviewsPage
          THEN /\ xpc' = "collecting"
               /\ cpc' = "loop"
               /\ UNCHANGED cachedReviews
          ELSE /\ cachedReviews' = extractReviewsFromDOM
               /\ xpc' = "resolved"
               /\ UNCHANGED cpc
    /\ UNCHANGED <<allReviews, attempts, consecutiveNoNewReviews, currentReviews,
                   finalAttempt, collected, docVars, ratingVars, mergeVars,
                   chunkVars, aiVars, insightVars, listenerVars, recursiveVars,
                   percentVars>>

\* The then-callback of the run: the reviews are cached and resolved.
ExtractAsyncResolve ==
    /\ xpc = "collecting"
    /\ cpc = "done"
    /\ cachedReviews' = collected
    /\ xpc' = "resolved"
    /\ UNCHANGED <<collectVars, docVars, ratingVars, mergeVars, chunkVars, aiVars,
                   insightVars, listenerVars, recursiveVars, percentVars>>

AsyncNext ==
    \/ ExtractAsyncStart
    \/ CollectNext
    \/ ExtractAsyncResolve

(***************************************************************************)
(* The rating of a record (the forEach body of extractReviewsFromDOM in    *)
(* primary mode): the number of the first span that reads "Rating, N       *)
(* stars"; else the number of star glyphs when it is in 1..5; else 5 when  *)
(* the text is longer than 20 characters; else no rating.  Fallback mode   *)
(* sets no rating.                                                         *)
(***************************************************************************)
MaxGlyphRating == 5
DefaultRating == 5

\* Largest N of a "Rating, N stars" cue, and largest number of star glyphs.
MaxCue == 7
MaxGlyphs == 7

NoCue == -1
NoRating == [present |-> FALSE, value |-> 0]
TextLengths == {0, MinTextAlone, MinTextAlone + 1}

\* Method 1: parseInt of the digits of the cue.
RatingFromCue(cue) == IF cue # NoCue THEN cue ELSE 0

\* Method 2: the count of star glyphs, when reasonable.
RatingFromGlyphs(count) ==
    IF count > 0 /\ count <= MaxGlyphRating THEN count ELSE 0

\* Method 3: the default when a text exists.
RatingDefault(length) == IF length > MinTextAlone THEN DefaultRating ELSE 0

extractRating(mode, cue, count, length) ==
    LET method1 == RatingFromCue(cue)
        method2 == IF method1 = 0 THEN RatingFromGlyphs(count) ELSE method1
        starCount == IF method2 = 0 THEN RatingDefault(length) ELSE method2
    IN IF mode = "primary" /\ starCount > 0
       THEN [present |-> TRUE, value |-> starCount]
       ELSE NoRating

RatingOff ==
    /\ rpc = "off"
    /\ ratingCue = NoCue
    /\ starSvgs = 0
    /\ textLength = 0
    /\ rating = NoRating

RatingInit ==
    /\ rpc = "input"
    /\ ratingCue \in {NoCue} \cup 0..MaxCue
    /\ starSvgs \in 0..MaxGlyphs
    /\ textLength \in TextLengths
    /\ rating = NoRating
    /\ cpc = "off"
    /\ allReviews = <<>>
    /\ attempts = 0
    /\ consecutiveNoNewReviews = 0
    /\ currentReviews = <<>>
    /\ finalAttempt = 0
    /\ collected = <<>>
    /\ xpc = "off"
    /\ cachedReviews = <<>>
    /\ domLo = 0
    /\ domHi = 0
    /\ docMode \in {"primary", "fallback"}
    /\ virtualized = FALSE
    /\ expansionPending = FALSE

RateElement ==
    /\ rpc = "input"
    /\ rating' = extractRating(docMode, ratingCue, starSvgs, textLength)
    /\ rpc' = "rated"
    /\ UNCHANGED <<ratingCue, starSvgs, textLength, outsideRating>>

RatingNext == RateElement

(***************************************************************************)
(* mergeKeywordAnalysis (src/browser-ai-integration.js).                   *)
(*                                                                         *)
(* A keyword item is a record that holds the fields the item has; a field  *)
(* the item lacks is not in its DOMAIN.  A per-chunk value is a record     *)
(* that says whether it is an array and, if so, holds the array's items.   *)
(***************************************************************************)
requiredAspects ==
    <<"Cleanliness", "Location", "HostCommunication", "ValueForMoney",
      "AccuracyOfListing", "CheckInProcess", "NoiseLevels", "Comfort",
      "Amenities">>

SnippetLimit == 10

\* merged is created as {}: besides its own nine properties it has the
\* properties every object inherits from Object.prototype, and
\* merged[item.keyword] finds those too.
ObjectPrototypeKeys ==
    {"constructor", "__proto__", "hasOwnProperty", "isPrototypeOf",
     "propertyIsEnumerable", "toLocaleString", "toString", "valueOf"}

\* item.f || 0, and item.f as a list to push (nothing when absent).
NumberOrZero(item, f) == IF f \in DOMAIN item THEN item[f] ELSE 0
SnippetsOrNone(item, f) == IF f \in DOMAIN item THEN item[f] ELSE <<>>

InitialMerged ==
    [own |-> [a \in Range(requiredAspects) |->
                 [keyword |-> a, positive |-> 0, negative |-> 0,
                  total_mentions |-> 0, positive_snippets |-> <<>>,
                  negative_snippets |-> <<>>]],
     threw |-> FALSE]

\* A merge in which the counters of a later item replace those of an earlier one.
MergeItemOverwrites(m, item) ==
    LET k == IF "keyword" \in DOMAIN item THEN item.keyword ELSE "undefined"
    IN IF m.threw THEN m
       ELSE IF k \in Range(requiredAspects)
       THEN [m EXCEPT !.own[k] =
               [keyword |-> k,
                positive |-> NumberOrZero(item, "positive"),
                negative |-> NumberOrZero(item, "negative"),
                total_mentions |-> NumberOrZero(item, "total_mentions"),
                positive_snippets |-> @.positive_snippets \o SnippetsOrNone(item, "positive_snippets"),
                negative_snippets |-> @.negative_snippets \o SnippetsOrNone(item, "negative_snippets")]]
       ELSE IF k \in ObjectPrototypeKeys
       THEN [m EXCEPT !.threw = "positive_snippets" \in DOMAIN item
                                  \/ "negative_snippets" \in DOMAIN item]
       ELSE m

\* The body of chunkKeywords.forEach for one item.  For an inherited key the
\* counters are written to the inherited object and the push on its missing
\* snippet list throws a TypeError.
MergeItem(m, item) ==
    LET k == IF "keyword" \in DOMAIN item THEN item.keyword ELSE "undefined"
    IN IF m.threw THEN m
       ELSE IF k \in Range(requiredAspects)
       THEN [m EXCEPT !.own[k] =
               [keyword |-> k,
                positive |-> @.positive + NumberOrZero(item, "positive"),
                negative |-> @.negative + NumberOrZero(item, "negative"),
                total_mentions |-> @.total_mentions + NumberOrZero(item, "total_mentions"),
                positive_snippets |-> @.positive_snippets \o SnippetsOrNone(item, "positive_snippets"),
                negative_snippets |-> @.negative_snippets \o SnippetsOrNone(item, "negative_snippets")]]
       ELSE IF k \in ObjectPrototypeKeys
       THEN [m EXCEPT !.threw = "positive_snippets" \in DOMAIN item
                                  \/ "negative_snippets" \in DOMAIN item]
       ELSE m

RECURSIVE MergeItems(_, _, _)
MergeItems(m, items, i) ==
    IF i > Len(items) THEN m
    ELSE MergeItems(MergeItem(m, items[i]), items, i + 1)

RECURSIVE MergeChunks(_, _, _)
MergeChunks(m, arrays, c) ==
    IF c > Len(arrays) THEN m
    ELSE MergeChunks(IF arrays[c].isArray THEN MergeItems(m, arrays[c].items, 1) ELSE m,
                     arrays, c + 1)

FirstN(s, n) == SubSeq(s, 1, Min(n, Len(s)))

\* The function: what it returns, or that it threw.
mergeKeywordAnalysis(arrays) ==
    LET m == MergeChunks(InitialMerged, arrays, 1)
    IN IF m.threw
       THEN [threw |-> TRUE, value |-> <<>>]
       ELSE [threw |-> FALSE,
             value |-> [i \in 1..Len(requiredAspects) |->
                 [m.own[requiredAspects[i]] EXCEPT
                     !.positive_snippets = FirstN(@, SnippetLimit),
                     !.negative_snippets = FirstN(@, SnippetLimit)]]]

(***************************************************************************)
(* The inputs the merge is applied to: the per-chunk values below, in      *)
(* lists of up to MaxChunks.                                               *)
(***************************************************************************)
MaxChunks == 3

ItemA ==
    [keyword |-> "Cleanliness", positive |-> 2, negative |-> 0, total_mentions |-> 2,
     positive_snippets |-> <<"a1", "a2", "a3", "a4", "a5", "a6">>,
     negative_snippets |-> <<>>]
ItemB ==
    [keyword |-> "Cleanliness", positive |-> 1, negative |-> 1, total_mentions |-> 2,
     positive_snippets |-> <<"b1", "b2", "b3", "b4", "b5", "b6">>,
     negative_snippets |-> <<"b7">>]
\* An item that lacks fields.
ItemC == [keyword |-> "Location", positive |-> 4]
\* An item with a keyword outside the nine aspects.
ItemUnknown ==
    [keyword |-> "Parking", positive |-> 1, negative |-> 1, total_mentions |-> 2,
     positive_snippets |-> <<"p1">>, negative_snippets |-> <<"p2">>]
\* An item whose keyword every object inherits.
ItemInherited ==
    [keyword |-> "constructor", positive |-> 1, negative |-> 0, total_mentions |-> 1,
     positive_snippets |-> <<"c1">>, negative_snippets |-> <<>>]

ArrayOf(items) == [isArray |-> TRUE, items |-> items]
NotAnArray == [isArray |-> FALSE, items |-> <<>>]

KeywordChunks ==
    {ArrayOf(<<>>), ArrayOf(<<ItemA>>), ArrayOf(<<ItemB>>), ArrayOf(<<ItemC>>),
     ArrayOf(<<ItemA, ItemA>>), ArrayOf(<<ItemUnknown, ItemC>>),
     ArrayOf(<<ItemInherited>>), NotAnArray}

SeqsUpTo(S, n) == UNION {[1..k -> S] : k \in 0..n}

MergeOff ==
    /\ mpc = "off"
    /\ chunkKeywordArrays = <<>>
    /\ mergeResult = <<>>

MergeInit ==
    /\ mpc = "input"
    /\ chunkKeywordArrays \in SeqsUpTo(KeywordChunks, MaxChunks)
    /\ mergeResult = <<>>

MergeReturns ==
    /\ mpc = "input"
    /\ ~mergeKeywordAnalysis(chunkKeywordArrays).threw
    /\ mergeResult' = mergeKeywordAnalysis(chunkKeywordArrays).value
    /\ mpc' = "returned"
    /\ UNCHANGED <<chunkKeywordArrays, outsideMerge>>

MergeThrows ==
    /\ mpc = "input"
    /\ mergeKeywordAnalysis(chunkKeywordArrays).threw
    /\ mpc' = "threw"
    /\ UNCHANGED <<chunkKeywordArrays, mergeResult, outsideMerge>>

MergeNext == MergeReturns \/ MergeThrows

(***************************************************************************)
(* The fold rule, stated on its own: per aspect, the entries of the array  *)
(* chunks whose keyword is the aspect, in chunk order; the sums of their   *)
(* counters; the first ten of their concatenated snippets.                 *)
(***************************************************************************)
RECURSIVE AllEntries(_)
AllEntries(arrays) ==
    IF arrays = <<>> THEN <<>>
    ELSE (IF Head(arrays).isArray THEN Head(arrays).items ELSE <<>>)
         \o AllEntries(Tail(arrays))

EntriesOf(arrays, a) ==
    SelectSeq(AllEntries(arrays),
              LAMBDA e : "keyword" \in DOMAIN e /\ e.keyword = a)

RECURSIVE SumField(_, _)
SumField(entries, f) ==
    IF entries = <<>> THEN 0
    ELSE NumberOrZero(Head(entries), f) + SumField(Tail(entries), f)

RECURSIVE ConcatField(_, _)
ConcatField(entries, f) ==
    IF entries = <<>> THEN <<>>
    ELSE SnippetsOrNone(Head(entries), f) \o ConcatField(Tail(entries), f)

FoldRule(arrays) ==
    [i \in 1..Len(requiredAspects) |->
        LET es == EntriesOf(arrays, requiredAspects[i])
        IN [keyword |-> requiredAspects[i],
            positive |-> SumField(es, "positive"),
            negative |-> SumField(es, "negative"),
            total_mentions |-> SumField(es, "total_mentions"),
            positive_snippets |-> FirstN(ConcatField(es, "positive_snippets"), SnippetLimit),
            negative_snippets |-> FirstN(ConcatField(es, "negative_snippets"), SnippetLimit)]]

(***************************************************************************)
(* createOptimizedChunks and estimateTokens (src/browser-ai-integration.js)*)
(*                                                                         *)
(* A review text is modelled by its position in the input and its length   *)
(* in characters, the only property of the text the chunker reads.         *)
(***************************************************************************)
MAX_TOKENS_PER_CHUNK == 750
CharsPerToken == 4
MAX_CHARS_PER_CHUNK == MAX_TOKENS_PER_CHUNK * CharsPerToken
SeparatorLength == 5

\* Math.ceil(text.length / 4), on the length.
estimateTokens(chars) == (chars + CharsPerToken - 1) \div CharsPerToken

RECURSIVE SumLengths(_)
SumLengths(revs) ==
    IF revs = <<>> THEN 0 ELSE Head(revs).length + SumLengths(Tail(revs))

\* The length of chunk.join('\n---\n').
JoinedLength(chunk) ==
    IF chunk = <<>> THEN 0
    ELSE SumLengths(chunk) + SeparatorLength * (Len(chunk) - 1)

\* An iteration that seeds the new chunk from any closed chunk, however short.
ChunkStepSeedsAlways(st, review, overlap) ==
    LET full == /\ st.currentChunkSize + review.length + SeparatorLength > MAX_CHARS_PER_CHUNK
                /\ Len(st.currentChunk) > 0
        keeps == full /\ overlap > 0
        overlapReviews == SubSeq(st.currentChunk,
                                 Max(1, Len(st.currentChunk) - overlap + 1),
                                 Len(st.currentChunk))
        overlapSize == SumLengths(overlapReviews) + SeparatorLength * Len(overlapReviews)
        start == IF keeps THEN overlapReviews
                 ELSE IF full THEN <<>> ELSE st.currentChunk
        startSize == IF keeps THEN overlapSize
                     ELSE IF full THEN 0 ELSE st.currentChunkSize
    IN [chunks |-> IF full THEN Append(st.chunks, st.currentChunk) ELSE st.chunks,
        currentChunk |-> Append(start, review),
        currentChunkSize |-> startSize + review.length + SeparatorLength]

\* One iteration of the for loop.
ChunkStep(st, review, overlap) ==
    LET full == /\ st.currentChunkSize + review.length + SeparatorLength > MAX_CHARS_PER_CHUNK
                /\ Len(st.currentChunk) > 0
        keeps == full /\ overlap > 0 /\ Len(st.currentChunk) > overlap
        overlapReviews == SubSeq(st.currentChunk,
                                 Len(st.currentChunk) - overlap + 1, Len(st.currentChunk))
        overlapSize == SumLengths(overlapReviews) + SeparatorLength * Len(overlapReviews)
        start == IF keeps THEN overlapReviews
                 ELSE IF full THEN <<>> ELSE st.currentChunk
        startSize == IF keeps THEN overlapSize
                     ELSE IF full THEN 0 ELSE st.currentChunkSize
    IN [chunks |-> IF full THEN Append(st.chunks, st.currentChunk) ELSE st.chunks,
        currentChunk |-> Append(start, review),
        currentChunkSize |-> startSize + review.length + SeparatorLength]

RECURSIVE ChunkLoop(_, _, _, _)
ChunkLoop(st, reviews, i, overlap) ==
    IF i > Len(reviews) THEN st
    ELSE ChunkLoop(ChunkStep(st, reviews[i], overlap), reviews, i + 1, overlap)

createOptimizedChunks(reviews, overlap) ==
    LET st == ChunkLoop([chunks |-> <<>>, currentChunk |-> <<>>, currentChunkSize |-> 0],
                        reviews, 1, overlap)
    IN IF Len(st.currentChunk) > 0 THEN Append(st.chunks, st.currentChunk)
                                    ELSE st.chunks

(***************************************************************************)
(* The inputs the chunker is applied to: up to MaxItems texts, each under  *)
(* the ceiling on its own, with chunkOverlap 0 (recursiveSummarize), 1     *)
(* (the default, analyzeReviews) and 2.                                    *)
(***************************************************************************)
MaxItems == 4
ReviewLengths == {400, 1000, 2000, 2990}
Overlaps == {0, 1, 2}

TextsOf(lengths) == [i \in 1..Len(lengths) |-> [id |-> i, length |-> lengths[i]]]

ChunkOff ==
    /\ kpc = "off"
    /\ reviewTexts = <<>>
    /\ chunkOverlap = 0
    /\ chunks = <<>>

ChunkInit ==
    /\ kpc = "input"
    /\ \E lengths \in SeqsUpTo(ReviewLengths, MaxItems) : reviewTexts = TextsOf(lengths)
    /\ chunkOverlap \in Overlaps
    /\ chunks = <<>>

CreateChunks ==
    /\ kpc = "input"
    /\ chunks' = createOptimizedChunks(reviewTexts, chunkOverlap)
    /\ kpc' = "chunked"
    /\ UNCHANGED <<reviewTexts, chunkOverlap, outsideChunker>>

ChunkNext == CreateChunks


(***************************************************************************)
(* The TravanaSpotBrowserAI object (src/browser-ai-integration.js): one    *)
(* object, used by the side panel for every listing, with a call of        *)
(* analyzeReviews and a call of askQuestion that interleave at their       *)
(* awaits.                                                                 *)
(*                                                                         *)
(* A review list is modelled by the listing it was collected from and its  *)
(* number of reviews; every review has a usable text of ReviewChars        *)
(* characters.  A session is "null" or "live".                             *)
(***************************************************************************)
CacheLimit == 100
AnalyzeLimit == 100
BatchSize == 10
MinReviewsPerChunk == 10
PromptOverhead == 2500
TokensPerReview == 150
ChunkDivisor == 3
MAX_CHARS_PER_REVIEW == 500
Ellipsis == "..."

\* Sizes of the listings' review lists, and the token quotas of a session.
ListingSize == 12
SmallListing == 4
ReviewLists ==
    {[listing |-> "A", size |-> ListingSize],
     [listing |-> "B", size |-> SmallListing],
     [listing |-> "B", size |-> 0]}
SessionQuotas == {4096, 9216}

NoReviews == [listing |-> "none", size |-> 0]
NoCache == [listing |-> "none", size |-> 0]

\* buildReviewCache: reviews.slice(0, 100), texts truncated, empty ones dropped.
buildReviewCache(reviews) ==
    [listing |-> reviews.listing, size |-> Min(CacheLimit, reviews.size)]

\* The texts analyzeReviews hands to the chunker: truncated to 500 + '...'.
TruncatedTexts(reviews) ==
    [i \in 1..Min(AnalyzeLimit, reviews.size) |->
        [id |-> i, length |-> MAX_CHARS_PER_REVIEW + Len(Ellipsis)]]

\* reviewsPerChunk of extractStructuredData for a fresh session of a quota.
reviewsPerChunk(availableTokens) ==
    Max(MinReviewsPerChunk,
        ((availableTokens - PromptOverhead) \div TokensPerReview) \div ChunkDivisor)

CeilDiv(a, b) == (a + b - 1) \div b

(***************************************************************************)
(* The objects analyzeReviews can return: the keys they have, their        *)
(* keyword_analysis and their message.                                     *)
(***************************************************************************)
BaseParsedKeys ==
    {"trust_score", "sentiment_analysis", "keyword_analysis", "pros_and_cons",
     "guest_insights", "summary", "reviews_analyzed", "analysis_type"}

FallbackKeys ==
    {"success", "analysis_type", "trust_score", "sentiment_analysis",
     "keyword_analysis", "pros_and_cons", "guest_insights", "summary",
     "reviews_analyzed", "message"}

NoResult == [kind |-> "none", keys |-> {}, keyword_analysis |-> <<>>, message |-> ""]

Thrown(message) ==
    [kind |-> "threw", keys |-> {}, keyword_analysis |-> <<>>, message |-> message]

\* fallbackReviewAnalysis, with the message its caller sets.
fallbackReviewAnalysis(message) ==
    [kind |-> "returned", keys |-> FallbackKeys, keyword_analysis |-> <<>>,
     message |-> message]

\* The keyword_analysis of createFallbackStructuredData: all nine aspects,
\* with the counts of the local keyword detection (none in texts that are not
\* modelled).
FallbackKeywordAnalysis ==
    [i \in 1..Len(requiredAspects) |->
        [keyword |-> requiredAspects[i], positive |-> 0, negative |-> 0,
         total_mentions |-> 0, positive_snippets |-> <<>>,
         negative_snippets |-> <<>>]]

NoStructuredData == [keyword_analysis |-> <<>>, fromFallback |-> FALSE]

\* What a batch of extractStructuredData can come to.
BatchThrows == [kind |-> "throws", keyword_analysis |-> NotAnArray]
BatchWithoutKeywords == [kind |-> "noKeywords", keyword_analysis |-> NotAnArray]
BatchParsed(chunk) == [kind |-> "parsed", keyword_analysis |-> chunk]
BatchOutcomes ==
    {BatchThrows, BatchWithoutKeywords,
     BatchParsed(ArrayOf(<<ItemA>>)), BatchParsed(ArrayOf(<<ItemInherited>>))}

\* What the catch block of analyzeReviews comes to when it lets the error go.
CatchRethrows(message) == Thrown(message)

\* What the catch block of analyzeReviews comes to: the basic analysis.
CatchResult(message) == fallbackReviewAnalysis(message)

MsgError == "Using basic analysis (error occurred)"
MsgBothUnavailable == "Using basic analysis (both AI APIs unavailable)"
MsgPromptOnly == "Analysis completed using Prompt API (Summarizer API unavailable)"
MsgNoReviews == "No reviews to analyze"
MsgInProgress == "Analysis already in progress"

\* A session is created by the running call of analyzeReviews ("analyze"), by
\* the running call of askQuestion ("ask") or by a call that has returned
\* ("earlier"); a null handle holds the session of "none".
Callers == {"analyze", "ask"}

\* The handle that held a live session of this creator is assigned another
\* value without destroy() having been called on the session.
Dropped(u, handle, creator) ==
    IF handle = "live" /\ creator \in Callers
    THEN [u EXCEPT ![creator] = @ + 1]
    ELSE u

AIInit ==
    /\ isAnalyzing = FALSE
    /\ reviewCache = NoCache
    /\ languageModelSession = "null"
    /\ summarizerSession = "null"
    /\ lmCreator = "none"
    /\ sumCreator = "none"
    /\ undestroyed = [analyze |-> 0, ask |-> 0]
    /\ apc = "idle"
    /\ aReviews = NoReviews
    /\ aPath = "summarizer"
    /\ sChunks = 0
    /\ sIndex = 0
    /\ chunkSummaries = 0
    /\ eBatches = 0
    /\ eIndex = 0
    /\ chunkResults = <<>>
    /\ eOutcomes = <<>>
    /\ eStatus = "none"
    /\ structuredData = NoStructuredData
    /\ aResult = NoResult
    /\ qpc = "idle"
    /\ qReviews = NoReviews
    /\ totalReviews = 0
    /\ startIndex = 0
    /\ answerFound = FALSE
    /\ finalAnswer = ""
    /\ qReplies = <<>>
    /\ qResult = "none"

(***************************************************************************)
(* analyzeReviews.                                                         *)
(***************************************************************************)
\* The catch block for an error other than SUMMARIZER_UNAVAILABLE, and the
\* inner catch block of the Prompt-API-only path.
AnalyzeCatch(message) ==
    /\ isAnalyzing' = FALSE
    /\ aResult' = CatchResult(message)
    /\ apc' = "done"

AnalyzeCall ==
    /\ apc = "idle"
    /\ \E reviews \in ReviewLists :
          /\ aReviews' = reviews
          /\ IF reviews.size = 0
             THEN /\ aResult' = Thrown(MsgNoReviews)
                  /\ apc' = "done"
                  /\ UNCHANGED isAnalyzing
             ELSE IF isAnalyzing
             THEN /\ aResult' = Thrown(MsgInProgress)
                  /\ apc' = "done"
                  /\ UNCHANGED isAnalyzing
             ELSE /\ isAnalyzing' = TRUE
                  /\ apc' = "initSummarizer"
                  /\ UNCHANGED aResult
    /\ aPath' = "summarizer"
    /\ UNCHANGED <<reviewCache, languageModelSession, summarizerSession,
                   sessionVars, summarizeVars, extractVars, askVars, outsideAI>>

\* initSummarizerSession, and the chunking of the truncated texts.
InitSummarizer ==
    /\ apc = "initSummarizer"
    /\ \E availability \in {"available", "unavailable", "error"} :
          CASE availability = "available" ->
                 /\ summarizerSession' = "live"
                 /\ sumCreator' = "analyze"
                 /\ undestroyed' = Dropped(undestroyed, summarizerSession, sumCreator)
                 /\ sChunks' = Len(createOptimizedChunks(TruncatedTexts(aReviews), 1))
                 /\ sIndex' = 0
                 /\ chunkSummaries' = 0
                 /\ apc' = "summarize"
                 /\ UNCHANGED <<isAnalyzing, aPath, aResult>>
            [] availability = "unavailable" ->
                 /\ isAnalyzing' = FALSE
                 /\ aPath' = "promptOnly"
                 /\ apc' = "clone"
                 /\ UNCHANGED <<summarizerSession, sumCreator, undestroyed,
                                summarizeVars, aResult>>
            [] OTHER ->
                 /\ AnalyzeCatch(MsgError)
                 /\ UNCHANGED <<summarizerSession, sumCreator, undestroyed,
                                summarizeVars, aPath>>
    /\ UNCHANGED <<reviewCache, languageModelSession, lmCreator, aReviews,
                   extractVars, askVars, outsideAI>>

\* Level 1: one chunk summarized or failed; after the last one the loop ends.
SummarizeChunk ==
    /\ apc = "summarize"
    /\ sIndex < sChunks
    /\ \E ok \in BOOLEAN :
          /\ chunkSummaries' = IF ok THEN chunkSummaries + 1 ELSE chunkSummaries
          /\ sIndex' = sIndex + 1
          /\ IF sIndex' < sChunks
             THEN UNCHANGED <<apc, isAnalyzing, aResult>>
             ELSE IF chunkSummaries' = 0
             THEN AnalyzeCatch(MsgError)
             ELSE apc' = "recursive" /\ UNCHANGED <<isAnalyzing, aResult>>
    /\ UNCHANGED <<reviewCache, languageModelSession, summarizerSession,
                   sessionVars, aReviews, aPath, sChunks, extractVars, askVars,
                   outsideAI>>

\* Level 2: recursiveSummarize returns the final summary or rejects.
RecursiveSummarize ==
    /\ apc = "recursive"
    /\ \E ok \in BOOLEAN :
          IF ok THEN apc' = "clone" /\ UNCHANGED <<isAnalyzing, aResult>>
                ELSE AnalyzeCatch(MsgError)
    /\ UNCHANGED <<reviewCache, languageModelSession, summarizerSession,
                   sessionVars, aReviews, aPath, summarizeVars, extractVars,
                   askVars, outsideAI>>

\* cloneLanguageModelSession: the clone of the session the handle holds, whose
\* original is destroyed; or, with no session or a clone() that rejects, a new
\* session from initLanguageModelSession, assigned over the handle; or no
\* Prompt API.
CloneSession ==
    /\ apc = "clone"
    /\ \E cloned \in BOOLEAN, available \in BOOLEAN :
          IF languageModelSession = "live" /\ cloned
          THEN /\ languageModelSession' = "live"
               /\ lmCreator' = "analyze"
               /\ apc' = "extractInit"
               /\ UNCHANGED <<isAnalyzing, aResult, undestroyed>>
          ELSE IF available
          THEN /\ languageModelSession' = "live"
               /\ lmCreator' = "analyze"
               /\ undestroyed' = Dropped(undestroyed, languageModelSession, lmCreator)
               /\ apc' = "extractInit"
               /\ UNCHANGED <<isAnalyzing, aResult>>
          ELSE /\ AnalyzeCatch(IF aPath = "summarizer" THEN MsgError
                                                       ELSE MsgBothUnavailable)
               /\ UNCHANGED <<languageModelSession, lmCreator, undestroyed>>
    /\ UNCHANGED <<reviewCache, summarizerSession, sumCreator, aReviews, aPath,
                   summarizeVars, extractVars, askVars, outsideAI>>

(***************************************************************************)
(* extractStructuredData, called by analyzeReviews with the truncated      *)
(* reviews: objects on the Summarizer path, strings on the Prompt-API-only *)
(* path.                                                                   *)
(***************************************************************************)
\* The catch block: createFallbackStructuredData(truncatedReviews) calls
\* reviews[0]?.substring and reviewText.toLowerCase, which objects lack, so
\* with objects it throws a TypeError that leaves extractStructuredData.
ExtractCatch ==
    IF aPath = "summarizer"
    THEN /\ eStatus' = "fallbackThrew"
         /\ AnalyzeCatch(MsgError)
         /\ UNCHANGED structuredData
    ELSE /\ eStatus' = "fallback"
         /\ structuredData' = [keyword_analysis |-> FallbackKeywordAnalysis,
                               fromFallback |-> TRUE]
         /\ apc' = "combine"
         /\ UNCHANGED <<isAnalyzing, aResult>>

\* initLanguageModelSession and the split into batches.
ExtractInit ==
    /\ apc = "extractInit"
    /\ \E available \in BOOLEAN :
          IF available
          THEN /\ languageModelSession' = "live"
               /\ lmCreator' = "analyze"
               /\ undestroyed' = Dropped(undestroyed, languageModelSession, lmCreator)
               /\ \E maxTokens \in SessionQuotas :
                     eBatches' = CeilDiv(Min(AnalyzeLimit, aReviews.size),
                                         reviewsPerChunk(maxTokens))
               /\ eIndex' = 0
               /\ chunkResults' = <<>>
               /\ eOutcomes' = <<>>
               /\ eStatus' = "running"
               /\ apc' = "extractBatch"
               /\ UNCHANGED <<isAnalyzing, aResult, structuredData>>
          ELSE /\ ExtractCatch
               /\ UNCHANGED <<languageModelSession, lmCreator, undestroyed,
                              eBatches, eIndex, chunkResults, eOutcomes>>
    /\ UNCHANGED <<reviewCache, summarizerSession, sumCreator, aReviews, aPath,
                   summarizeVars, askVars, outsideAI>>

\* One batch: extractChunkData throws (as it must when the handle is null: it
\* reads maxTokens of it), or returns an object without keyword_analysis, or
\* returns one with it, which is pushed.
ExtractBatch ==
    /\ apc = "extractBatch"
    /\ eIndex < eBatches
    /\ \E outcome \in IF languageModelSession = "null" THEN {BatchThrows}
                                                       ELSE BatchOutcomes :
          /\ eOutcomes' = Append(eOutcomes, outcome)
          /\ chunkResults' = IF outcome.kind = "parsed"
                             THEN Append(chunkResults, outcome.keyword_analysis)
                             ELSE chunkResults
    /\ eIndex' = eIndex + 1
    /\ UNCHANGED <<objVars, sessionVars, analyzeVars, summarizeVars, eBatches,
                   eStatus, structuredData, askVars, outsideAI>>

\* After the loop: all batches failed, or the merge of the pushed results.
ExtractFinish ==
    /\ apc = "extractBatch"
    /\ eIndex = eBatches
    /\ IF chunkResults = <<>> \/ mergeKeywordAnalysis(chunkResults).threw
       THEN ExtractCatch
       ELSE /\ structuredData' =
                  [keyword_analysis |-> mergeKeywordAnalysis(chunkResults).value,
                   fromFallback |-> FALSE]
            /\ eStatus' = "merged"
            /\ apc' = "combine"
            /\ UNCHANGED <<isAnalyzing, aResult>>
    /\ UNCHANGED <<reviewCache, languageModelSession, summarizerSession,
                   sessionVars, aReviews, aPath, summarizeVars, eBatches, eIndex,
                   chunkResults, eOutcomes, askVars, outsideAI>>

\* The result of the Summarizer path (which also builds the review cache) and
\* of the Prompt-API-only path.
Combine ==
    /\ apc = "combine"
    /\ IF aPath = "summarizer"
       THEN /\ aResult' =
                  [kind |-> "returned",
                   keys |-> BaseParsedKeys \cup {"keyword_analysis_error"},
                   keyword_analysis |-> structuredData.keyword_analysis,
                   message |-> ""]
            /\ reviewCache' = buildReviewCache(aReviews)
            /\ apc' = "destroySummarizer"
       ELSE /\ aResult' =
                  [kind |-> "returned",
                   keys |-> FallbackKeys \cup {"keyword_analysis_error"},
                   keyword_analysis |-> structuredData.keyword_analysis,
                   message |-> MsgPromptOnly]
            /\ apc' = "done"
            /\ UNCHANGED reviewCache
    /\ UNCHANGED <<isAnalyzing, languageModelSession, summarizerSession,
                   sessionVars, aReviews, aPath, summarizeVars, extractVars,
                   askVars, outsideAI>>

DestroySummarizer ==
    /\ apc = "destroySummarizer"
    /\ summarizerSession' = "null"
    /\ sumCreator' = "none"
    /\ apc' = "destroyLanguageModel"
    /\ UNCHANGED <<isAnalyzing, reviewCache, languageModelSession, lmCreator,
                   undestroyed, aReviews, aPath, aResult, summarizeVars,
                   extractVars, askVars, outsideAI>>

DestroyLanguageModel ==
    /\ apc = "destroyLanguageModel"
    /\ languageModelSession' = "null"
    /\ lmCreator' = "none"
    /\ isAnalyzing' = FALSE
    /\ apc' = "done"
    /\ UNCHANGED <<reviewCache, summarizerSession, sumCreator, undestroyed,
                   aReviews, aPath, aResult, summarizeVars, extractVars, askVars,
                   outsideAI>>

\* The sessions of a call that has returned are those of an earlier call.
Returned(creator, caller) == IF creator = caller THEN "earlier" ELSE creator

\* The caller has taken the result (or the error); the call's locals are gone.
AnalyzeForget ==
    /\ apc = "done"
    /\ apc' = "idle"
    /\ aReviews' = NoReviews
    /\ aPath' = "summarizer"
    /\ aResult' = NoResult
    /\ sChunks' = 0
    /\ sIndex' = 0
    /\ chunkSummaries' = 0
    /\ eBatches' = 0
    /\ eIndex' = 0
    /\ chunkResults' = <<>>
    /\ eOutcomes' = <<>>
    /\ eStatus' = "none"
    /\ structuredData' = NoStructuredData
    /\ lmCreator' = Returned(lmCreator, "analyze")
    /\ sumCreator' = Returned(sumCreator, "analyze")
    /\ undestroyed' = [undestroyed EXCEPT !.analyze = 0]
    /\ UNCHANGED <<objVars, askVars, outsideAI>>

(***************************************************************************)
(* askQuestion.                                                            *)
(***************************************************************************)
NotFoundReply == "NOT_FOUND_IN_THIS_BATCH"
Replies == {"Guests mention it.", "", NotFoundReply}
NotMentioned == "notMentioned"

\* The catch block: the session is destroyed and an error text returned.
AskCatch ==
    /\ languageModelSession' = "null"
    /\ lmCreator' = "none"
    /\ qResult' = "error"
    /\ qpc' = "done"

AskCall ==
    /\ qpc = "idle"
    /\ \E reviews \in ReviewLists :
          /\ qReviews' = reviews
          /\ IF reviews.size = 0
             THEN /\ qResult' = "noReviews"
                  /\ qpc' = "done"
                  /\ UNCHANGED <<reviewCache, totalReviews>>
             ELSE /\ reviewCache' = IF reviewCache = NoCache
                                    THEN buildReviewCache(reviews)
                                    ELSE reviewCache
                  /\ totalReviews' = reviewCache'.size
                  /\ qpc' = "init"
                  /\ UNCHANGED qResult
    /\ UNCHANGED <<isAnalyzing, languageModelSession, summarizerSession,
                   sessionVars, startIndex, answerFound, finalAnswer, qReplies,
                   analyzeVars, summarizeVars, extractVars, outsideAI>>

AskInit ==
    /\ qpc = "init"
    /\ \E available \in BOOLEAN :
          IF available
          THEN /\ languageModelSession' = "live"
               /\ lmCreator' = "ask"
               /\ undestroyed' = Dropped(undestroyed, languageModelSession, lmCreator)
               /\ qpc' = "batch"
               /\ UNCHANGED qResult
          ELSE AskCatch /\ UNCHANGED undestroyed
    /\ UNCHANGED <<isAnalyzing, reviewCache, summarizerSession, sumCreator, qReviews,
                   totalReviews, startIndex, answerFound, finalAnswer, qReplies,
                   analyzeVars, summarizeVars, extractVars, outsideAI>>

\* One iteration of the batch loop: the token check, the query and the test
\* of the reply.  The batch is read from the cache as it is now.
AskBatch ==
    /\ qpc = "batch"
    /\ startIndex < totalReviews
    /\ IF languageModelSession = "null"
       THEN /\ AskCatch                   \* maxTokens of null: TypeError
            /\ UNCHANGED <<startIndex, answerFound, finalAnswer, qReplies>>
       ELSE \E enoughTokens \in BOOLEAN, rejects \in BOOLEAN, response \in Replies :
               IF ~enoughTokens
               THEN /\ qpc' = "destroy"   \* break
                    /\ UNCHANGED <<languageModelSession, lmCreator, qResult, startIndex,
                                   answerFound, finalAnswer, qReplies>>
               ELSE IF rejects
               THEN /\ AskCatch
                    /\ UNCHANGED <<startIndex, answerFound, finalAnswer, qReplies>>
               ELSE /\ qReplies' = Append(qReplies, [from |-> reviewCache.listing,
                                                     reply |-> response])
                    /\ IF response # NotFoundReply
                       THEN /\ finalAnswer' = response
                            /\ answerFound' = TRUE
                            /\ qpc' = "destroy"
                            /\ UNCHANGED startIndex
                       ELSE /\ startIndex' = startIndex + BatchSize
                            /\ qpc' = IF startIndex' < totalReviews
                                      THEN "batch" ELSE "destroy"
                            /\ UNCHANGED <<answerFound, finalAnswer>>
                    /\ UNCHANGED <<languageModelSession, lmCreator, qResult>>
    /\ UNCHANGED <<isAnalyzing, reviewCache, summarizerSession, sumCreator,
                   undestroyed, qReviews, totalReviews, analyzeVars,
                   summarizeVars, extractVars, outsideAI>>

\* The session is destroyed and the answer, or not-mentioned, returned.
AskReturn ==
    /\ qpc = "destroy"
    /\ languageModelSession' = "null"
    /\ lmCreator' = "none"
    /\ qResult' = IF answerFound /\ finalAnswer # "" THEN "answer" ELSE NotMentioned
    /\ qpc' = "done"
    /\ UNCHANGED <<isAnalyzing, reviewCache, summarizerSession, sumCreator,
                   undestroyed, qReviews, totalReviews, startIndex, answerFound, finalAnswer, qReplies,
                   analyzeVars, summarizeVars, extractVars, outsideAI>>

AskForget ==
    /\ qpc = "done"
    /\ qpc' = "idle"
    /\ qReviews' = NoReviews
    /\ totalReviews' = 0
    /\ startIndex' = 0
    /\ answerFound' = FALSE
    /\ finalAnswer' = ""
    /\ qReplies' = <<>>
    /\ qResult' = "none"
    /\ lmCreator' = Returned(lmCreator, "ask")
    /\ undestroyed' = [undestroyed EXCEPT !.ask = 0]
    /\ UNCHANGED <<objVars, sumCreator, analyzeVars, summarizeVars, extractVars,
                   outsideAI>>

AINext ==
    \/ AnalyzeCall
    \/ InitSummarizer
    \/ SummarizeChunk
    \/ RecursiveSummarize
    \/ CloneSession
    \/ ExtractInit
    \/ ExtractBatch
    \/ ExtractFinish
    \/ Combine
    \/ DestroySummarizer
    \/ DestroyLanguageModel
    \/ AnalyzeForget
    \/ AskCall
    \/ AskInit
    \/ AskBatch
    \/ AskReturn
    \/ AskForget

(***************************************************************************)
(* The merge of guest_insights in extractStructuredData                    *)
(* (browser-ai-integration.js:631-655), for one category.                  *)
(***************************************************************************)
RecommendedForLimit == 5
NotRecommendedForLimit == 3
BestFeaturesLimit == 5
AreasForImprovementLimit == 4

InsightLimit ==
    [recommended_for |-> RecommendedForLimit,
     not_recommended_for |-> NotRecommendedForLimit,
     best_features |-> BestFeaturesLimit,
     areas_for_improvement |-> AreasForImprovementLimit]

InsightKeys == DOMAIN InsightLimit

\* Property names that are canonical array indices, in ascending numeric
\* order: Object.keys lists them before every other own property.
IntegerLikeKeys == <<"2", "10">>

\* All items of all batches, in the order forEach visits them.
RECURSIVE FlattenInsights(_)
FlattenInsights(batches) ==
    IF batches = <<>> THEN <<>>
    ELSE Head(batches) \o FlattenInsights(Tail(batches))

\* insightCounts[key][item] after the forEach: one increment per visit.
InsightCount(flat, item) == Cardinality({i \in DOMAIN flat : flat[i] = item})

\* The order in which the properties were created.
InsertionOrder(flat) ==
    LET first(i) == \A j \in 1..(i - 1) : flat[j] # flat[i]
        RECURSIVE from(_)
        from(i) == IF i > Len(flat) THEN <<>>
                   ELSE IF first(i) THEN <<flat[i]>> \o from(i + 1)
                   ELSE from(i + 1)
    IN from(1)

\* Object.keys(insightCounts[key]).
ObjectKeys(flat) ==
    LET created == InsertionOrder(flat)
        isIndex(k) == k \in Range(IntegerLikeKeys)
    IN SelectSeq(IntegerLikeKeys, LAMBDA k : k \in Range(created))
       \o SelectSeq(created, LAMBDA k : ~isIndex(k))

\* .sort((a, b) => count[b] - count[a]): a stable sort by descending count.
SortByCount(keys, flat) ==
    LET RECURSIVE from(_)
        from(c) == IF c = 0 THEN <<>>
                   ELSE SelectSeq(keys, LAMBDA k : InsightCount(flat, k) = c)
                        \o from(c - 1)
    IN from(Len(flat))

mergeInsights(batches, key) ==
    LET flat == FlattenInsights(batches)
    IN FirstN(SortByCount(ObjectKeys(flat), flat), InsightLimit[key])

\* The inputs: up to MaxBatches processed batches, each with one of these
\* lists under the key (an empty list also stands for a batch without
\* guest_insights or without the key, which the code skips alike).
MaxBatches == 3

InsightLists ==
    { <<>>,
      <<"families", "couples">>,
      <<"couples", "families">>,
      <<"groups", "solo travelers", "business">>,
      <<"pets", "business", "families">>,
      <<"pets", "groups", "couples">>,
      <<"solo travelers">>,
      <<"quiet", "quiet">>,
      <<"view">>,
      <<"families", "2">>,
      <<"10", "2", "couples">> }

InsightOff ==
    /\ ipc = "off"
    /\ insightBatches = <<>>
    /\ insightKey = "recommended_for"
    /\ mergedInsight = <<>>

InsightInit ==
    /\ ipc = "input"
    /\ insightBatches \in UNION {[1..n -> InsightLists] : n \in 1..MaxBatches}
    /\ insightKey \in InsightKeys
    /\ mergedInsight = <<>>

MergeInsights ==
    /\ ipc = "input"
    /\ mergedInsight' = mergeInsights(insightBatches, insightKey)
    /\ ipc' = "merged"
    /\ UNCHANGED <<insightBatches, insightKey, outsideInsight>>

InsightNext == MergeInsights


(***************************************************************************)
(* The extract_reviews listener of the content script (part_000:1134-1164) *)
(* with extractReviewsAsync (185-250) and urlObserver (1167-1175), over    *)
(* the lifetime of the content script in a single-page application: pages  *)
(* are numbered, a review is known by its page and its position, and       *)
(* several collections can be in flight.  cachedReviews is null or an      *)
(* array; both null and the empty array are <<>>, as the one test of the   *)
(* variable (`cachedReviews && cachedReviews.length > 0`) treats them      *)
(* alike.                                                                  *)
(***************************************************************************)
MaxPages == 2
MaxRequests == 3
MaxRows == 1

PageReview(url, k) == [url |-> url, index |-> k]

\* What one pass over the document of a page yields.
PageReviews(url, n) == [k \in 1..n |-> PageReview(url, k)]

\* The test of the listener: answer from the cache.
CacheHitIgnoringRefresh(forceRefresh, cache) == Len(cache) > 0

CacheHit(forceRefresh, cache) == ~forceRefresh /\ Len(cache) > 0

ListenerOff ==
    /\ currentUrl = 0
    /\ requests = <<>>

ListenerInit ==
    /\ currentUrl = 1
    /\ requests = <<>>

Request(forceRefresh, stage, fromCache, response) ==
    [url |-> currentUrl, forceRefresh |-> forceRefresh, stage |-> stage,
     fromCache |-> fromCache, got |-> <<>>, response |-> response]

\* The listener, with the synchronous part of extractReviewsAsync: the click
\* on "Show all reviews" and the 3 s timer, or the start of the collection on
\* a reviews page, or one pass of extractReviewsFromDOM, cached and sent.
ExtractRequest ==
    /\ Len(requests) < MaxRequests
    /\ \E forceRefresh \in BOOLEAN :
          IF CacheHit(forceRefresh, cachedReviews)
          THEN /\ requests' = Append(requests,
                      Request(forceRefresh, "answered", TRUE, cachedReviews))
               /\ UNCHANGED cachedReviews
          ELSE \E branch \in {"button", "reviewsPage", "direct"}, n \in 0..MaxRows :
                  LET cleared == IF forceRefresh THEN <<>> ELSE cachedReviews
                  IN CASE branch = "button" ->
                            /\ n = 0
                            /\ requests' = Append(requests,
                                   Request(forceRefresh, "timer", FALSE, <<>>))
                            /\ cachedReviews' = cleared
                       [] branch = "reviewsPage" ->
                            /\ n = 0
                            /\ requests' = Append(requests,
                                   Request(forceRefresh, "collecting", FALSE, <<>>))
                            /\ cachedReviews' = cleared
                       [] OTHER ->
                            /\ requests' = Append(requests,
                                   Request(forceRefresh, "answered", FALSE,
                                           PageReviews(currentUrl, n)))
                            /\ cachedReviews' = PageReviews(currentUrl, n)
    /\ UNCHANGED <<currentUrl, outsideListener>>

\* The 3 s timer set after the click fires: collectReviewsWithScrolling starts.
TimerFires ==
    /\ \E i \in DOMAIN requests :
          /\ requests[i].stage = "timer"
          /\ requests' = [requests EXCEPT ![i].stage = "collecting"]
    /\ UNCHANGED <<currentUrl, cachedReviews, outsideListener>>

\* A running collection reads one more review off the document shown.
CollectStep ==
    /\ \E i \in DOMAIN requests :
          /\ requests[i].stage = "collecting"
          /\ Len(requests[i].got) < MaxRows
          /\ requests' = [requests EXCEPT ![i].got =
                 Append(@, PageReview(currentUrl, Len(@) + 1))]
    /\ UNCHANGED <<currentUrl, cachedReviews, outsideListener>>

\* collectReviewsWithScrolling returns: its result is cached and sent.
CollectDone ==
    /\ \E i \in DOMAIN requests :
          /\ requests[i].stage = "collecting"
          /\ cachedReviews' = requests[i].got
          /\ requests' = [requests EXCEPT ![i].stage = "answered",
                                          ![i].response = requests[i].got]
    /\ UNCHANGED <<currentUrl, outsideListener>>

\* The URL changes and urlObserver sees it.
UrlChange ==
    /\ currentUrl < MaxPages
    /\ currentUrl' = currentUrl + 1
    /\ cachedReviews' = <<>>
    /\ UNCHANGED <<requests, outsideListener>>

ListenerNext ==
    \/ ExtractRequest
    \/ TimerFires
    \/ CollectStep
    \/ CollectDone
    \/ UrlChange


(***************************************************************************)
(* recursiveSummarize (browser-ai-integration.js:977-1022), with           *)
(* measureInputUsage (964-973).  Texts are known by their lengths; a call  *)
(* of summarizerSession.summarize resolves with a text of some length or   *)
(* rejects.                                                                *)
(***************************************************************************)
MAX_RECURSION_DEPTH == 5
ParagraphBreakLength == 2
LineBreakLength == 1

\* The inputs: up to MaxSummaries summaries, and the lengths a summary and
\* the context can have.
MaxSummaries == 2
SummaryLengths == {400, 2990}
ContextLengths == {0, 147}

\* The length of summaries.join('\n\n').
CombinedLength(texts) ==
    IF texts = <<>> THEN 0
    ELSE SumLengths(texts) + ParagraphBreakLength * (Len(texts) - 1)

\* measureInputUsage(text, context).fitsInSingleRequest
fitsInSingleRequest(textLen, contextLen) ==
    LET totalLength == textLen + (IF contextLen > 0 THEN LineBreakLength + contextLen ELSE 0)
    IN estimateTokens(totalLength) <= MAX_TOKENS_PER_CHUNK

\* The test that ends the recursion.
DepthUnchecked(d) == FALSE

DepthReached(d) == d >= MAX_RECURSION_DEPTH

NoSummary == [kind |-> "none", length |-> 0]

RecursiveOff ==
    /\ spc = "off"
    /\ depth = 0
    /\ summaries = <<>>
    /\ context = 0
    /\ levelChunks = <<>>
    /\ levelIndex = 0
    /\ nextLevelSummaries = <<>>
    /\ apiCalls = 0
    /\ finalSummary = NoSummary

RecursiveInit ==
    /\ spc = "enter"
    /\ depth = 0
    /\ \E lengths \in SeqsUpTo(SummaryLengths, MaxSummaries) : summaries = TextsOf(lengths)
    /\ context \in ContextLengths
    /\ levelChunks = <<>>
    /\ levelIndex = 0
    /\ nextLevelSummaries = <<>>
    /\ apiCalls = 0
    /\ finalSummary = NoSummary

\* The entry of a level, up to its first await or its return.
EnterLevel ==
    /\ spc = "enter"
    /\ IF DepthReached(depth)
       THEN /\ finalSummary' = [kind |-> "joined", length |-> CombinedLength(summaries)]
            /\ spc' = "returned"
            /\ UNCHANGED <<levelChunks, levelIndex, nextLevelSummaries>>
       ELSE IF fitsInSingleRequest(CombinedLength(summaries), context)
       THEN /\ spc' = "single"
            /\ UNCHANGED <<finalSummary, levelChunks, levelIndex, nextLevelSummaries>>
       ELSE /\ levelChunks' = createOptimizedChunks(summaries, 0)
            /\ levelIndex' = 0
            /\ nextLevelSummaries' = <<>>
            /\ spc' = "loop"
            /\ UNCHANGED finalSummary
    /\ UNCHANGED <<depth, summaries, context, apiCalls, outsideRecursive>>

\* The single request: its summary is returned, its rejection is thrown.
SummarizeCombined ==
    /\ spc = "single"
    /\ apiCalls' = apiCalls + 1
    /\ \/ \E length \in SummaryLengths :
             finalSummary' = [kind |-> "summary", length |-> length]
       \/ finalSummary' = [kind |-> "thrown", length |-> 0]
    /\ spc' = "returned"
    /\ UNCHANGED <<depth, summaries, context, levelChunks, levelIndex,
                   nextLevelSummaries, outsideRecursive>>

\* One chunk of the level: its summary is pushed, its rejection is logged.
SummarizeLevelChunk ==
    /\ spc = "loop"
    /\ levelIndex < Len(levelChunks)
    /\ apiCalls' = apiCalls + 1
    /\ \/ \E length \in SummaryLengths :
             nextLevelSummaries' = Append(nextLevelSummaries,
                 [id |-> Len(nextLevelSummaries) + 1, length |-> length])
       \/ UNCHANGED nextLevelSummaries
    /\ levelIndex' = levelIndex + 1
    /\ UNCHANGED <<spc, depth, summaries, context, levelChunks, finalSummary,
                   outsideRecursive>>

\* The loop is over: recursiveSummarize(nextLevelSummaries, context, depth + 1).
Recurse ==
    /\ spc = "loop"
    /\ levelIndex >= Len(levelChunks)
    /\ summaries' = nextLevelSummaries
    /\ depth' = depth + 1
    /\ spc' = "enter"
    /\ UNCHANGED <<context, levelChunks, levelIndex, nextLevelSummaries, apiCalls,
                   finalSummary, outsideRecursive>>

RecursiveNext ==
    \/ EnterLevel
    \/ SummarizeCombined
    \/ SummarizeLevelChunk
    \/ Recurse

(***************************************************************************)
(* The sentiment percentages of parseSummaryToStructure                    *)
(* (browser-ai-integration.js:1370-1383), from the numbers of positive,    *)
(* neutral and negative reviews, and of fallbackReviewAnalysis             *)
(* (1834-1837), from the numbers of positive and negative keyword hits.    *)
(***************************************************************************)
Percent == 100

\* Math.round((count / total) * 100): the nearest integer, a half rounded up.
\* Up to the totals considered the quotient is a half only for count/total
\* an odd multiple of 1/8, which the floating-point division and product
\* give exactly.
RoundedPercentage(count, total) == (2 * Percent * count + total) \div (2 * total)

\* `a + b + c || 1`
OrOne(n) == IF n = 0 THEN 1 ELSE n

SentimentPercentages(positive, neutral, negative) ==
    LET total == OrOne(positive + neutral + negative)
        positive_percentage == RoundedPercentage(positive, total)
        negative_percentage == RoundedPercentage(negative, total)
    IN [positive |-> positive_percentage,
        negative |-> negative_percentage,
        neutral |-> Percent - positive_percentage - negative_percentage]

\* The largest count of a class.
MaxCount == 8

NoPercentages == [positive |-> 0, negative |-> 0, neutral |-> 0]

PercentOff ==
    /\ ppc = "off"
    /\ sentimentOf = "parseSummaryToStructure"
    /\ positiveReviews = 0
    /\ neutralReviews = 0
    /\ negativeReviews = 0
    /\ percentages = NoPercentages

\* fallbackReviewAnalysis counts no neutral class.
PercentInit ==
    /\ ppc = "counted"
    /\ sentimentOf \in {"parseSummaryToStructure", "fallbackReviewAnalysis"}
    /\ positiveReviews \in 0..MaxCount
    /\ negativeReviews \in 0..MaxCount
    /\ neutralReviews \in IF sentimentOf = "fallbackReviewAnalysis" THEN {0} ELSE 0..MaxCount
    /\ percentages = NoPercentages

ComputePercentages ==
    /\ ppc = "counted"
    /\ percentages' = SentimentPercentages(positiveReviews, neutralReviews, negativeReviews)
    /\ ppc' = "computed"
    /\ UNCHANGED <<sentimentOf, positiveReviews, neutralReviews, negativeReviews,
                   outsidePercent>>

PercentNext == ComputePercentages

(***************************************************************************)
(* The specifications.  Spec is one collection run of the content script.  *)
(***************************************************************************)
Init == CollectInit /\ RatingOff /\ MergeOff /\ ChunkOff /\ AIInit /\ InsightOff /\ ListenerOff /\ RecursiveOff /\ PercentOff
Next == CollectNext
Spec == Init /\ [][Next]_vars

\* MergeSpec applies mergeKeywordAnalysis to one input.
MergeSpecInit == MergeInit /\ CollectOff /\ RatingOff /\ ChunkOff /\ AIInit /\ InsightOff /\ ListenerOff /\ RecursiveOff /\ PercentOff
MergeSpec == MergeSpecInit /\ [][MergeNext]_vars

\* ChunkSpec applies createOptimizedChunks to one input.
ChunkSpecInit == ChunkInit /\ CollectOff /\ RatingOff /\ MergeOff /\ AIInit /\ InsightOff /\ ListenerOff /\ RecursiveOff /\ PercentOff
ChunkSpec == ChunkSpecInit /\ [][ChunkNext]_vars

\* AsyncSpec is one call of extractReviewsAsync of the content script.
AsyncSpecInit == AsyncInit /\ RatingOff /\ MergeOff /\ ChunkOff /\ AIInit /\ InsightOff /\ ListenerOff /\ RecursiveOff /\ PercentOff

\* RatingSpec derives the rating of one review element.
RatingSpecInit == RatingInit /\ MergeOff /\ ChunkOff /\ AIInit /\ InsightOff /\ ListenerOff /\ RecursiveOff /\ PercentOff
RatingSpec == RatingSpecInit /\ [][RatingNext]_vars
AsyncSpec == AsyncSpecInit /\ [][AsyncNext]_vars

\* AISpec is the AI object with its calls of analyzeReviews and askQuestion.
AISpecInit == AIInit /\ CollectOff /\ RatingOff /\ MergeOff /\ ChunkOff /\ InsightOff /\ ListenerOff /\ RecursiveOff /\ PercentOff
AISpec == AISpecInit /\ [][AINext]_vars

\* InsightSpec merges one category of guest_insights.
InsightSpecInit == InsightInit /\ CollectOff /\ RatingOff /\ MergeOff /\ ChunkOff /\ AIInit /\ ListenerOff /\ RecursiveOff /\ PercentOff
InsightSpec == InsightSpecInit /\ [][InsightNext]_vars

\* ListenerSpec is the content script answering extract_reviews requests.
ListenerSpecInit == ListenerInit /\ CollectOff /\ RatingOff /\ MergeOff /\ ChunkOff /\ AIInit /\ InsightOff /\ RecursiveOff /\ PercentOff
ListenerSpec == ListenerSpecInit /\ [][ListenerNext]_vars

\* RecursiveSpec is one call of recursiveSummarize; every summarize call it
\* awaits settles, so a call that can take a step takes one.
RecursiveSpecInit == RecursiveInit /\ CollectOff /\ RatingOff /\ MergeOff /\ ChunkOff /\ AIInit /\ InsightOff /\ ListenerOff /\ PercentOff
RecursiveSpec == RecursiveSpecInit /\ [][RecursiveNext]_vars /\ WF_vars(RecursiveNext)

\* PercentSpec computes the sentiment percentages of one set of counts.
PercentSpecInit == PercentInit /\ CollectOff /\ RatingOff /\ MergeOff /\ ChunkOff /\ AIInit /\ InsightOff /\ ListenerOff /\ RecursiveOff
PercentSpec == PercentSpecInit /\ [][PercentNext]_vars

(***************************************************************************)
(* The identity of a record, and the identities a sequence holds.          *)
(***************************************************************************)
Identity(r) == <<r.name, r.text>>
Identities(s) == {Identity(s[i]) : i \in 1..Len(s)}
ValidIdentities(s) ==
    {Identity(s[i]) : i \in {j \in 1..Len(s) : s[j].name # "" /\ s[j].text # ""}}

(***************************************************************************)
(* The number of steps a run can still take, at most: two per main-loop    *)
(* iteration left, two per final-push pass left, and the steps between.    *)
(***************************************************************************)
StepsLeft ==
    LET finalLeft == 2 * (FinalPushAttempts - finalAttempt)
        afterLoopLeft == 2 * FinalPushAttempts + 4
    IN CASE cpc = "loop"         -> afterLoopLeft + 1 + 2 * (maxAttempts - attempts)
         [] cpc = "scroll"       -> afterLoopLeft + 2 + 2 * (maxAttempts - attempts)
         [] cpc = "afterLoop"    -> afterLoopLeft
         [] cpc = "finalTest"    -> finalLeft + 3
         [] cpc = "finalExtract" -> finalLeft + 2
         [] cpc = "closing"      -> 1
         [] OTHER                -> 0

(***************************************************************************)
(* C1: the main loop of collectReviewsWithScrolling performs at most 30    *)
(* iterations, and the collection run then returns, whatever the document  *)
(* does (also when it never yields a record and never scrolls): the        *)
(* attempt counter never exceeds 30, every step of the run brings it       *)
(* closer to its return (StepsLeft is a natural number that decreases),    *)
(* and a run that has not returned can always take a step.                 *)
(***************************************************************************)
C1_LoopBoundedAndReturns ==
    /\ [](attempts <= maxAttempts)
    /\ [](StepsLeft >= 0)
    /\ [][StepsLeft' < StepsLeft]_vars
    /\ [](cpc # "done" => ENABLED Next)

\* The run returned after the attempt budget alone ended the main loop.
C1_Witness ==
    /\ cpc = "done"
    /\ attempts = maxAttempts
    /\ Len(allReviews) < TargetReviews
    /\ consecutiveNoNewReviews < NoProgressBudget

(***************************************************************************)
(* C2: at every point of a run the accumulated set holds no two records    *)
(* with the same (name, text); duplicates inside one extraction pass are   *)
(* merged too: after the first pass the set holds exactly one record per   *)
(* distinct named (name, text) pair of the pass (12 records with 4 exact   *)
(* duplicates give 8).                                                     *)
(***************************************************************************)
C2_NoDuplicates ==
    /\ Cardinality(Identities(allReviews)) = Len(allReviews)
    /\ (attempts = 1 /\ cpc \in {"scroll", "loop"}) =>
          Len(allReviews) = Cardinality(ValidIdentities(currentReviews))

\* One pass over 12 records, 4 of them exact duplicates, accumulated 8.
C2_Witness ==
    /\ attempts = 1
    /\ cpc = "scroll"
    /\ Len(currentReviews) = 12
    /\ Cardinality(Identities(currentReviews)) = 8
    /\ Len(allReviews) = 8

(***************************************************************************)
(* C5: for any list of per-chunk keyword arrays (empty list, non-array     *)
(* entries, chunks that omit aspects, contain unknown keywords or repeat   *)
(* an aspect) mergeKeywordAnalysis returns exactly the nine fixed aspects, *)
(* each once and in the fixed order.                                       *)
(***************************************************************************)
C5_ExactlyNineAspects ==
    mpc # "input" =>
        /\ mpc = "returned"
        /\ [i \in 1..Len(mergeResult) |-> mergeResult[i].keyword] = requiredAspects

(***************************************************************************)
(* C6: mergeKeywordAnalysis returns what the fold rule gives: per aspect   *)
(* the sums of positive, negative and total_mentions over the entries of   *)
(* that aspect (a missing field counts 0) and the first 10 of the          *)
(* concatenated snippets; chunks A Cleanliness(+2/-0), B Cleanliness       *)
(* (+1/-1) and C without Cleanliness give Cleanliness(+3/-1).              *)
(***************************************************************************)
C6_EqualsFoldRule ==
    mpc # "input" =>
        /\ mpc = "returned"
        /\ mergeResult = FoldRule(chunkKeywordArrays)

(***************************************************************************)
(* C7: for every input whose items are each under the ceiling, with        *)
(* overlap 0 and with overlap 1, every chunk createOptimizedChunks         *)
(* returns, joined with the 5-character separator, has an estimated token  *)
(* count of at most 750 (at most 3000 characters).                         *)
(***************************************************************************)
C7_ChunksUnderCeiling ==
    kpc = "chunked" =>
        \A c \in 1..Len(chunks) :
            /\ estimateTokens(JoinedLength(chunks[c])) <= MAX_TOKENS_PER_CHUNK
            /\ JoinedLength(chunks[c]) <= MAX_CHARS_PER_CHUNK

(***************************************************************************)
(* The keys every result of analyzeReviews must have.                      *)
(***************************************************************************)
RequiredKeys ==
    {"trust_score", "sentiment_analysis", "keyword_analysis", "pros_and_cons",
     "guest_insights", "summary", "reviews_analyzed"}

KeywordsOf(analysis) == [i \in 1..Len(analysis) |-> analysis[i].keyword]

(***************************************************************************)
(* C3: called with a non-empty review list while no analysis is in         *)
(* progress, analyzeReviews never throws when the external APIs fail       *)
(* (Summarizer unavailable, every summarization chunk failing, Prompt API  *)
(* unavailable, every Prompt-API batch failing): it returns an object that *)
(* has all of trust_score, sentiment_analysis, keyword_analysis,           *)
(* pros_and_cons, guest_insights, summary and reviews_analyzed.            *)
(***************************************************************************)
C3_ReturnsOnApiFailure ==
    (apc = "done" /\ aReviews.size > 0 /\ aResult.message # MsgInProgress) =>
        /\ aResult.kind = "returned"
        /\ RequiredKeys \subseteq aResult.keys

\* The Summarizer worked, every Prompt-API batch threw, and the call returned.
C3_Witness ==
    /\ apc = "done"
    /\ aPath = "summarizer"
    /\ eBatches > 1
    /\ Len(eOutcomes) = eBatches
    /\ \A i \in 1..Len(eOutcomes) : eOutcomes[i] = BatchThrows
    /\ aResult.kind = "returned"
    /\ RequiredKeys \subseteq aResult.keys

(***************************************************************************)
(* C4: every result analyzeReviews returns, on the success path, on the    *)
(* Prompt-API-only path and on every fallback path, has a keyword_analysis *)
(* that holds all nine fixed aspects.                                      *)
(***************************************************************************)
C4_AllNineAspects ==
    (apc = "done" /\ aResult.kind = "returned") =>
        KeywordsOf(aResult.keyword_analysis) = requiredAspects

(***************************************************************************)
(* C8: askQuestion returns the not-mentioned response only after every     *)
(* batch of 10 of the review cache was queried and every reply contained   *)
(* NOT_FOUND_IN_THIS_BATCH.                                                *)
(***************************************************************************)
C8_NotMentionedAfterAllBatches ==
    (qpc = "done" /\ qResult = NotMentioned) =>
        /\ Len(qReplies) = CeilDiv(totalReviews, BatchSize)
        /\ \A i \in 1..Len(qReplies) : qReplies[i].reply = NotFoundReply

(***************************************************************************)
(* C9: the batches askQuestion(reviews, question) queries are built only   *)
(* from the reviews passed to that call, never from a review list the      *)
(* object analyzed or answered about earlier.                              *)
(***************************************************************************)
C9_BatchesFromCallReviews ==
    \A i \in 1..Len(qReplies) : qReplies[i].from = qReviews.listing

(***************************************************************************)
(* C10: in extractStructuredData a batch that throws or returns no         *)
(* keyword_analysis is skipped and the later batches are still processed   *)
(* in order; the merged result is the fold of exactly the successful       *)
(* batches, and the local keyword fallback is used only when no batch      *)
(* succeeded.                                                              *)
(***************************************************************************)
SuccessfulBatches ==
    LET parsed == SelectSeq(eOutcomes, LAMBDA o : o.kind = "parsed")
    IN [i \in 1..Len(parsed) |-> parsed[i].keyword_analysis]

C10_FoldOfSuccessfulBatches ==
    /\ chunkResults = SuccessfulBatches
    /\ eStatus \in {"merged", "fallback", "fallbackThrew"} =>
          Len(eOutcomes) = eBatches
    /\ eStatus = "merged" =>
          structuredData.keyword_analysis = FoldRule(SuccessfulBatches)
    /\ eStatus \in {"fallback", "fallbackThrew"} => SuccessfulBatches = <<>>

(***************************************************************************)
(* C11: when there are no records to analyze or to answer from (a null or  *)
(* empty list), analyzeReviews and askQuestion each return an explicit     *)
(* empty / "not available" result and do not throw.                        *)
(***************************************************************************)
C11_NoRecordsReturnsExplicitResult ==
    /\ (apc = "done" /\ aReviews.size = 0) => aResult.kind = "returned"
    /\ (qpc = "done" /\ qReviews.size = 0) => qResult = "noReviews"

(***************************************************************************)
(* C12: every Summarizer or LanguageModel session created during an        *)
(* analyzeReviews or askQuestion call has been destroyed by the time that  *)
(* call returns, on every path (success, Prompt-API-only fallback,         *)
(* heuristic fallback, error); no live session handle is overwritten or    *)
(* dropped without being destroyed.                                        *)
(***************************************************************************)
C12_SessionsDestroyedOnReturn ==
    /\ undestroyed.analyze = 0
    /\ undestroyed.ask = 0
    /\ apc = "done" => lmCreator # "analyze" /\ sumCreator # "analyze"
    /\ qpc = "done" => lmCreator # "ask"

(***************************************************************************)
(* C13: while an analyzeReviews run is in progress, the language-model     *)
(* session handle it uses is never replaced, destroyed or set to null by   *)
(* another operation on the same object interleaved at one of its await    *)
(* points: a step of askQuestion leaves the handle, and the session it     *)
(* holds, as the run of analyzeReviews set them.                           *)
(***************************************************************************)
C13_HandleOwnedByAnalysis ==
    [][(/\ apc \notin {"idle", "done"}
        /\ lmCreator = "analyze"
        /\ askVars' # askVars)
          => /\ languageModelSession' = languageModelSession
             /\ lmCreator' = lmCreator]_vars

(***************************************************************************)
(* C14: during a collection run the accumulated set only grows: its size   *)
(* is non-decreasing from one iteration to the next, a record once         *)
(* accumulated is never removed or changed (the set before a step is a     *)
(* prefix of the set after it), and the attempt counter increases by       *)
(* exactly 1 per main-loop iteration and by nothing else.                  *)
(***************************************************************************)
C14_AccumulatedSetOnlyGrows ==
    [][/\ Len(allReviews') >= Len(allReviews)
       /\ SubSeq(allReviews', 1, Len(allReviews)) = allReviews
       /\ attempts' = IF cpc = "loop" /\ LoopCondition THEN attempts + 1
                                                       ELSE attempts]_vars

\* After three iterations on a list that drops what scrolled out of view, the
\* set holds records the latest pass no longer sees.
C14_Witness ==
    /\ cpc = "scroll"
    /\ attempts = 3
    /\ virtualized
    /\ currentReviews # <<>>
    /\ Len(allReviews) > Len(currentReviews)
    /\ ~(Identities(allReviews) \subseteq Identities(currentReviews))

(***************************************************************************)
(* C15: a collection run returns at most 100 records: the accumulated set  *)
(* in insertion order, cut to its first 100 entries when it holds more.    *)
(***************************************************************************)
C15_ReturnsAtMostTarget ==
    cpc = "done" =>
        /\ Len(collected) <= TargetReviews
        /\ Len(collected) = IF Len(allReviews) > TargetReviews
                            THEN TargetReviews ELSE Len(allReviews)
        /\ \A i \in 1..Len(collected) : collected[i] = allReviews[i]

\* A run whose last pass took the set over 100 records returned the first 100.
C15_Witness ==
    /\ cpc = "done"
    /\ Len(allReviews) > TargetReviews
    /\ Len(collected) = TargetReviews

(***************************************************************************)
(* The orders in which a list of chunks can be folded, and the counters of *)
(* a merged result.                                                        *)
(***************************************************************************)
ChunkOrders(n) ==
    {p \in [1..n -> 1..n] : \A i, j \in 1..n : p[i] = p[j] => i = j}

Permuted(arrays, p) == [i \in 1..Len(arrays) |-> arrays[p[i]]]

CountsOf(result) ==
    [i \in 1..Len(result) |->
        [keyword |-> result[i].keyword, positive |-> result[i].positive,
         negative |-> result[i].negative,
         total_mentions |-> result[i].total_mentions]]

(***************************************************************************)
(* C16: for any list of per-chunk keyword arrays, every permutation of the *)
(* chunks gives the same positive, negative and total_mentions value for   *)
(* each aspect in mergeKeywordAnalysis (and a list on which the function   *)
(* throws makes it throw in every order); only the choice of kept snippets *)
(* may depend on the order.                                                *)
(***************************************************************************)
C16_CountsIndependentOfOrder ==
    \A p \in ChunkOrders(Len(chunkKeywordArrays)) :
        LET other == mergeKeywordAnalysis(Permuted(chunkKeywordArrays, p))
        IN /\ mpc = "returned" =>
                 ~other.threw /\ CountsOf(other.value) = CountsOf(mergeResult)
           /\ mpc = "threw" => other.threw

\* Three different chunks were merged, and another order of them gives the
\* same counters with other snippets kept.
C16_Witness ==
    /\ mpc = "returned"
    /\ Len(chunkKeywordArrays) = MaxChunks
    /\ mergeResult[1].positive = 5
    /\ \E p \in ChunkOrders(Len(chunkKeywordArrays)) :
          LET other == mergeKeywordAnalysis(Permuted(chunkKeywordArrays, p))
          IN /\ other.value # mergeResult
             /\ CountsOf(other.value) = CountsOf(mergeResult)

(***************************************************************************)
(* C17: every record in a review list that the content script delivers     *)
(* (resolved by extractReviewsAsync and stored in cachedReviews) has       *)
(* non-empty text, on every path: scrolling collection as well as direct   *)
(* DOM extraction, primary as well as fallback extractor mode.             *)
(***************************************************************************)
C17_DeliveredRecordsHaveText ==
    xpc = "resolved" =>
        \A i \in 1..Len(cachedReviews) : cachedReviews[i].text # ""

(***************************************************************************)
(* C18: every record the Record Extractor produces has a rating that is    *)
(* either absent or an integer in 1..5, whichever of the three strategies  *)
(* ("Rating, N stars" text, glyph count, default 5) supplied it.           *)
(***************************************************************************)
C18_RatingAbsentOrOneToFive ==
    (rpc = "rated" /\ rating.present) => rating.value \in 1..5

(***************************************************************************)
(* C19: every expansion (scroll) the Collector triggers is followed, after *)
(* the settle wait, by a Record Extractor pass whose new unique records    *)
(* are merged into the accumulated set before the run returns; no          *)
(* expansion is left without a following extraction.                       *)
(***************************************************************************)
C19_ExpansionFollowedByExtraction ==
    cpc = "done" => ~expansionPending

(***************************************************************************)
(* C20: the extra-pass phase of Finishing ends before its 8-pass budget is *)
(* spent only if several consecutive extra passes yielded no new unique    *)
(* record (or the size reached 95); extra passes that keep adding records  *)
(* while the size stays below 95 are not cut short: a pass that ends the   *)
(* phase by the early-stop rule added no record, or took the size to 95.   *)
(***************************************************************************)
C20_EarlyStopOnlyWithoutProgress ==
    [][(cpc = "finalExtract" /\ cpc' = "closing") =>
          \/ Len(allReviews') = Len(allReviews)
          \/ Len(allReviews') >= FinalPushHigh]_vars

(***************************************************************************)
(* C21: the Collector probes the document for "no more records" signals    *)
(* only in an iteration that added no record and never on the first stall  *)
(* (at least 5 consecutive stalls are required); when a signal is found    *)
(* the main loop ends at once, with no further main-loop iteration, and    *)
(* the records accumulated so far are returned as a normal result.  An     *)
(* iteration that ends the loop below the target is one that found a       *)
(* signal.                                                                 *)
(***************************************************************************)
C21_EndSignalEndsMainLoop ==
    /\ [][(/\ cpc = "loop"
           /\ attempts' = attempts + 1
           /\ cpc' = "afterLoop"
           /\ Len(allReviews') < TargetReviews)
             => /\ Len(allReviews') = Len(allReviews)
                /\ consecutiveNoNewReviews' = consecutiveNoNewReviews + 1
                /\ consecutiveNoNewReviews' >= EndProbeMinStalls]_vars
    /\ [][cpc \notin {"loop", "scroll"} =>
             /\ cpc' \notin {"loop", "scroll"}
             /\ attempts' = attempts]_vars
    /\ [](cpc = "done" =>
             /\ Len(collected) = Min(TargetReviews, Len(allReviews))
             /\ \A i \in 1..Len(collected) : collected[i] = allReviews[i])

\* A run whose main loop was ended by a signal on the fifth stall in a row,
\* within its budgets, returned the records it had.
C21_Witness ==
    /\ cpc = "done"
    /\ consecutiveNoNewReviews = EndProbeMinStalls
    /\ attempts > EndProbeMinStalls
    /\ attempts < maxAttempts
    /\ Len(allReviews) \in 1..(FinalPushLow - 1)
    /\ collected = allReviews

(***************************************************************************)
(* C22: after each main-loop iteration the no-progress counter equals the  *)
(* number of most recent consecutive iterations that added no new record   *)
(* (an iteration without a new record adds 1 to it, any iteration that     *)
(* adds one resets it to 0), and the main loop stops as soon as the        *)
(* counter reaches 10, even when fewer than 30 attempts were made.         *)
(***************************************************************************)
C22_NoProgressCounter ==
    /\ [][(cpc = "loop" /\ attempts' = attempts + 1) =>
             consecutiveNoNewReviews' =
                 IF Len(allReviews') = Len(allReviews)
                 THEN consecutiveNoNewReviews + 1 ELSE 0]_vars
    /\ [][consecutiveNoNewReviews >= NoProgressBudget => attempts' = attempts]_vars
    /\ [](consecutiveNoNewReviews <= NoProgressBudget)

(***************************************************************************)
(* C22 as the code has it: the counter is the number of most recent        *)
(* consecutive iterations without a new record after every iteration that  *)
(* leaves the set below the target of 100; the iteration that reaches the  *)
(* target ends the loop before the counter is touched and leaves it as it  *)
(* was.  The main loop stops as soon as the counter reaches 10.            *)
(***************************************************************************)
C22_NoProgressCounterBelowTarget ==
    /\ [][(cpc = "loop" /\ attempts' = attempts + 1) =>
             consecutiveNoNewReviews' =
                 IF Len(allReviews') >= TargetReviews THEN consecutiveNoNewReviews
                 ELSE IF Len(allReviews') = Len(allReviews)
                 THEN consecutiveNoNewReviews + 1 ELSE 0]_vars
    /\ [][consecutiveNoNewReviews >= NoProgressBudget => attempts' = attempts]_vars
    /\ [](consecutiveNoNewReviews <= NoProgressBudget)

\* A main loop that stopped on its tenth stall in a row, after progress and
\* with attempts to spare.
C22_Witness ==
    /\ cpc = "afterLoop"
    /\ consecutiveNoNewReviews = NoProgressBudget
    /\ attempts > NoProgressBudget
    /\ attempts < maxAttempts
    /\ allReviews # <<>>

RECURSIVE JoinWithoutSeeds(_, _, _)
JoinWithoutSeeds(cs, seeded(_), c) ==
    IF c > Len(cs) THEN <<>>
    ELSE SubSeq(cs[c], seeded(c) + 1, Len(cs[c])) \o JoinWithoutSeeds(cs, seeded, c + 1)

LastItems(chunk, n) == SubSeq(chunk, Len(chunk) - n + 1, Len(chunk))

StartsWith(chunk, items) ==
    Len(chunk) >= Len(items) /\ SubSeq(chunk, 1, Len(items)) = items

(***************************************************************************)
(* C24: whenever createOptimizedChunks closes a batch with overlap k > 0,  *)
(* the next batch starts with the last k items of the closed batch, in     *)
(* order, followed by the next input item; with overlap 0 no item appears  *)
(* in two batches.  In both cases the batches, with the seeded items       *)
(* removed, concatenate to the input list in its original order with no    *)
(* item lost.                                                              *)
(***************************************************************************)
C24_SeededWithLastItems ==
    kpc = "chunked" =>
        LET k == chunkOverlap
            seeded(c) == IF c > 1 THEN k ELSE 0
        IN /\ \A c \in 2..Len(chunks) :
                 /\ Len(chunks[c - 1]) >= k
                 /\ StartsWith(chunks[c], LastItems(chunks[c - 1], k))
                 /\ Len(chunks[c]) > k
           /\ k = 0 => \A c, d \in 1..Len(chunks) :
                          c # d => Range(chunks[c]) \cap Range(chunks[d]) = {}
           /\ \A c \in 1..Len(chunks) : Len(chunks[c]) >= seeded(c)
           /\ JoinWithoutSeeds(chunks, seeded, 1) = reviewTexts

(***************************************************************************)
(* C24 as the code has it: a closed batch seeds the next one with its last *)
(* k items only when it holds more than k items; a closed batch of at most *)
(* k items seeds nothing.  With overlap 0 no item appears in two batches,  *)
(* and the batches without their seeded items concatenate to the input.    *)
(***************************************************************************)
C24_SeededWhenLongerThanOverlap ==
    kpc = "chunked" =>
        LET k == chunkOverlap
            seeded(c) == IF c > 1 /\ k > 0 /\ Len(chunks[c - 1]) > k THEN k ELSE 0
        IN /\ \A c \in 2..Len(chunks) :
                 /\ StartsWith(chunks[c], LastItems(chunks[c - 1], seeded(c)))
                 /\ Len(chunks[c]) > seeded(c)
           /\ k = 0 => \A c, d \in 1..Len(chunks) :
                          c # d => Range(chunks[c]) \cap Range(chunks[d]) = {}
           /\ JoinWithoutSeeds(chunks, seeded, 1) = reviewTexts

\* Four texts chunked with overlap 2: the closed batch of three seeds the next
\* batch with its last two.
C24_Witness ==
    /\ kpc = "chunked"
    /\ chunkOverlap = 2
    /\ Len(reviewTexts) = MaxItems
    /\ Len(chunks) = 2
    /\ Len(chunks[1]) = 3
    /\ chunks[2] = LastItems(chunks[1], 2) \o <<reviewTexts[MaxItems]>>

(***************************************************************************)
(* C25.  The merged list of a category has no duplicates, is ordered by    *)
(* non-increasing number of batches that mention the item, items with the  *)
(* same number keeping the order of their first encounter, and is cut to   *)
(* the top N of the category.                                              *)
(***************************************************************************)
BatchesMentioning(item) ==
    Cardinality({b \in DOMAIN insightBatches : item \in Range(insightBatches[b])})

FirstEncounter(item) ==
    LET flat == FlattenInsights(insightBatches)
    IN CHOOSE i \in DOMAIN flat :
          /\ flat[i] = item
          /\ \A j \in 1..(i - 1) : flat[j] # item

RanksBefore(a, b) ==
    \/ BatchesMentioning(a) > BatchesMentioning(b)
    \/ /\ BatchesMentioning(a) = BatchesMentioning(b)
       /\ FirstEncounter(a) < FirstEncounter(b)

C25_TopNByBatchFrequency ==
    ipc = "merged" =>
        LET mentioned == Range(FlattenInsights(insightBatches))
            r == mergedInsight
        IN /\ \A i, j \in DOMAIN r : i # j => r[i] # r[j]
           /\ Range(r) \subseteq mentioned
           /\ Len(r) = Min(InsightLimit[insightKey], Cardinality(mentioned))
           /\ \A i, j \in DOMAIN r : i < j => RanksBefore(r[i], r[j])
           /\ \A item \in mentioned \ Range(r) :
                 \A i \in DOMAIN r : RanksBefore(r[i], item)

\* The inputs on which counting visits and counting batches agree: no batch
\* lists an item twice and no item is an array index.
C25_PlainInput ==
    /\ \A b \in DOMAIN insightBatches :
          \A i, j \in DOMAIN insightBatches[b] :
             i # j => insightBatches[b][i] # insightBatches[b][j]
    /\ Range(FlattenInsights(insightBatches)) \cap Range(IntegerLikeKeys) = {}

C25_TopNOnPlainInput == C25_PlainInput => C25_TopNByBatchFrequency

(***************************************************************************)
(* C26.  At most one analyzeReviews invocation executes at a time.  A call *)
(* is admitted exactly when isAnalyzing is false (and the list is not      *)
(* empty), so a call made while an invocation has not returned is rejected *)
(* exactly when isAnalyzing is true at that moment: isAnalyzing is true    *)
(* while an invocation runs, on every path, and false when none runs.      *)
(***************************************************************************)
AnalyzeRunning == apc \notin {"idle", "done"}

C26_OneAnalysisAtATime == isAnalyzing <=> AnalyzeRunning

\* The same outside the Prompt-API-only path.
C26_OneAnalysisOnSummarizerPath ==
    (aPath = "summarizer") => (isAnalyzing <=> AnalyzeRunning)

(***************************************************************************)
(* C27.  After the page URL changes the cache never holds reviews of a     *)
(* previous page: every cached review is of the page shown, and no request *)
(* is answered with reviews of a page left before the request was made.    *)
(***************************************************************************)
OfPage(reviews, url) == \A k \in DOMAIN reviews : reviews[k].url = url

NoneOlderThan(reviews, url) == \A k \in DOMAIN reviews : reviews[k].url >= url

C27_CacheOfCurrentPage ==
    /\ OfPage(cachedReviews, currentUrl)
    /\ \A i \in DOMAIN requests :
          requests[i].stage = "answered" =>
              NoneOlderThan(requests[i].response, requests[i].url)

(***************************************************************************)
(* C28.  A request without forceRefresh that finds a non-empty cache is    *)
(* answered with the cache, starts no collection and leaves the cache as   *)
(* it is.  A request with forceRefresh is never answered from the cache:   *)
(* the cache is cleared and a collection starts, whose result, when it is  *)
(* delivered, is both the new cache and the response.                      *)
(***************************************************************************)
LastRequest(rs) == rs[Len(rs)]

C28_CachedUnlessForced ==
    [][/\ Len(requests') > Len(requests) =>
            LET new == LastRequest(requests')
            IN /\ (~new.forceRefresh /\ Len(cachedReviews) > 0) =>
                     /\ new.stage = "answered"
                     /\ new.fromCache
                     /\ new.response = cachedReviews
                     /\ cachedReviews' = cachedReviews
               /\ new.forceRefresh =>
                     /\ ~new.fromCache
                     /\ new.stage = "answered" =>
                           /\ new.response = cachedReviews'
                           /\ OfPage(new.response, currentUrl)
                     /\ new.stage # "answered" =>
                           /\ cachedReviews' = <<>>
                           /\ new.got = <<>>
               /\ \A i \in DOMAIN requests : requests'[i] = requests[i]
       /\ \A i \in DOMAIN requests :
             (i \in DOMAIN requests' /\ requests[i].stage # "answered"
                /\ requests'[i].stage = "answered") =>
                   /\ requests'[i].response = requests[i].got
                   /\ cachedReviews' = requests[i].got
      ]_vars

C28_Witness ==
    /\ Len(requests) = MaxRequests
    /\ requests[1].stage = "answered" /\ ~requests[1].fromCache
    /\ Len(requests[1].response) > 0
    /\ requests[2].stage = "answered" /\ requests[2].fromCache
    /\ requests[2].response = requests[1].response
    /\ requests[3].forceRefresh /\ requests[3].stage = "answered"
    /\ Len(requests[3].got) > 0
    /\ requests[3].response = requests[3].got
    /\ cachedReviews = requests[3].got

(***************************************************************************)
(* C29.  recursiveSummarize always terminates: the depth never exceeds 5,  *)
(* a level entered at depth 5 returns the joined summaries with no further *)
(* API call, and every call returns (or throws) in the end, whatever the   *)
(* lengths of the summaries of each level and whichever calls fail.        *)
(***************************************************************************)
C29_RecursionBounded ==
    /\ [](depth <= MAX_RECURSION_DEPTH)
    /\ [][depth = MAX_RECURSION_DEPTH =>
             /\ spc' = "returned"
             /\ finalSummary' = [kind |-> "joined", length |-> CombinedLength(summaries)]
             /\ apiCalls' = apiCalls]_vars
    /\ <>(spc = "returned")

\* A call that went down to depth 5 because no level fitted a single request,
\* and one whose every chunk failed at some level.
C29_Witness ==
    /\ spc = "returned"
    /\ depth = MAX_RECURSION_DEPTH
    /\ finalSummary.kind = "joined"
    /\ Len(summaries) > 1
    /\ ~fitsInSingleRequest(CombinedLength(summaries), context)
    /\ apiCalls >= MAX_RECURSION_DEPTH

(***************************************************************************)
(* C30.  The positive, neutral and negative percentages of a result are    *)
(* integers in 0..100 that sum to 100, whatever the counts.                *)
(***************************************************************************)
C30_PercentagesInRange ==
    ppc = "computed" =>
        /\ percentages.positive \in 0..Percent
        /\ percentages.neutral \in 0..Percent
        /\ percentages.negative \in 0..Percent
        /\ percentages.positive + percentages.neutral + percentages.negative = Percent

\* What holds: the sum, the range of the two rounded shares, and the neutral
\* share never below -1.
C30_SumAndRoundedShares ==
    ppc = "computed" =>
        /\ percentages.positive \in 0..Percent
        /\ percentages.negative \in 0..Percent
        /\ percentages.neutral \in -1..Percent
        /\ percentages.positive + percentages.neutral + percentages.negative = Percent
====
